---- MODULE Spec2Model ----
(***************************************************************************)
(* Model of the omnitrust security-posture inspector: the per-platform     *)
(* feature detectors (TPM / Secure Enclave, Secure Boot, disk encryption,  *)
(* biometrics) and the aggregator GetSecuritySummary.                      *)
(*                                                                         *)
(* A behaviour is one host: Init fixes the platform (runtime.GOOS) and the *)
(* operating-system signals the detectors read; every action is one call   *)
(* of an exported function, and ret holds what the last call returned.     *)
(* Nothing else survives a call: the package has no variables.             *)
(*                                                                         *)
(* Conventions.  A Go pointer or error is a sequence of length 0 (nil) or  *)
(* 1.  A Go string that the code searches character by character is a      *)
(* tuple of one-character strings; the output of an external tool that the *)
(* code only probes with strings.Contains is the set of the probed phrases *)
(* that occur in it.                                                       *)
(***************************************************************************)
EXTENDS Integers, Sequences, FiniteSets, TLC

VARIABLES goos,        \* runtime.GOOS of the build
          tpmSig,      \* what the platform's TPM detector will observe
          bootSig,     \* what the Secure Boot detector will observe
          encSig,      \* what the encryption detector will observe
          bioSig,      \* what the biometrics detector will observe
          ret          \* the last completed call: the function, what it
                       \* returned and, for GetSecuritySummary, the
                       \* detectors it invoked

vars == <<goos, tpmSig, bootSig, encSig, bioSig, ret>>

sigs == <<goos, tpmSig, bootSig, encSig, bioSig>>

----------------------------------------------------------------------------
(* Go values *)

Null == <<>>

Ptr(r) == <<r>>

IsNil(p) == p = Null

Deref(p) == p[1]

\* (result, nil)
Ok(r) == [val |-> Ptr(r), err |-> Null]

\* (nil, err)
Fail(msg) == [val |-> Null, err |-> <<msg>>]

\* nothing has been called yet
NotCalled == [fn |-> "none"]

\* strings.Contains on character tuples
Contains(s, sub) ==
    \E i \in 0..(Len(s) - Len(sub)) : SubSeq(s, i + 1, i + Len(sub)) = sub

\* strings.HasSuffix on character tuples
HasSuffix(s, suf) ==
    Len(s) >= Len(suf) /\ SubSeq(s, Len(s) - Len(suf) + 1, Len(s)) = suf

Categories == {"tpm", "secure_boot", "encryption", "biometrics"}

----------------------------------------------------------------------------
(* TPM / Secure Enclave detectors *)

BaseCapabilities ==
    <<"hardware_key_generation", "hardware_key_storage",
      "platform_integrity", "secure_boot_support">>

\* Faulty variant of Tpm20Capabilities: a 2.0 chip gets nothing extra.
Tpm20Capabilities_none == <<>>

Tpm20Capabilities == <<"enhanced_authorization", "algorithm_agility">>

TPMNotDetected(platform) ==
    [Present |-> FALSE, Enabled |-> FALSE, Version |-> "Not detected",
     Manufacturer |-> "Unknown", Type |-> "none", Platform |-> platform,
     Capabilities |-> <<>>, HardwareKeySupport |-> FALSE]

\* Linux.  s.readDirErr: os.ReadDir("/sys/class/tpm") failed; s.entries: the
\* directory entries; s.major, s.minor, s.vendor: readSysFile of the three
\* sysfs attributes ("" when unreadable); s.devOk: os.Stat("/dev/"+device).
GetTPMStatus_linux(s) ==
    IF s.readDirErr \/ Len(s.entries) = 0
    THEN Ok(TPMNotDetected("linux"))
    ELSE LET tpmType    == IF s.major = "2" THEN "tpm_2.0" ELSE "tpm_1.2"
             versionStr == IF s.minor /= "" THEN s.major \o "." \o s.minor
                           ELSE IF s.major = "2" THEN "2.0" ELSE "1.2"
             manufacturer == IF s.vendor = "" THEN "Unknown" ELSE s.vendor
             enabled    == s.devOk
             capabilities ==
                 IF enabled
                 THEN BaseCapabilities \o
                      (IF tpmType = "tpm_2.0" THEN Tpm20Capabilities ELSE <<>>)
                 ELSE <<>>
         IN  Ok([Present |-> TRUE, Enabled |-> enabled,
                 Version |-> "TPM " \o versionStr,
                 Manufacturer |-> manufacturer, Type |-> tpmType,
                 Platform |-> "linux", Capabilities |-> capabilities,
                 HardwareKeySupport |-> enabled])

\* Windows.  s.queryErr: wmi.QueryNamespace failed; s.tpmInfo: the rows of
\* Win32_Tpm, each [IsEnabled, IsActivated, SpecVersion (character tuple),
\* ManufacturerIdTxt, ManufacturerId].
GetTPMStatus_windows(s) ==
    IF s.queryErr \/ Len(s.tpmInfo) = 0
    THEN Ok(TPMNotDetected("windows"))
    ELSE LET tpm     == s.tpmInfo[1]
             version == tpm.SpecVersion
             tpmType == IF Contains(version, <<"2", ".", "0">>)
                        THEN "tpm_2.0" ELSE "tpm_1.2"
             capabilities ==
                 IF tpm.IsEnabled
                 THEN BaseCapabilities \o
                      (IF tpmType = "tpm_2.0" THEN Tpm20Capabilities ELSE <<>>)
                 ELSE <<>>
             manufacturer == IF tpm.ManufacturerIdTxt = ""
                             THEN "ID: " \o ToString(tpm.ManufacturerId)
                             ELSE tpm.ManufacturerIdTxt
         IN  Ok([Present |-> TRUE, Enabled |-> tpm.IsEnabled,
                 Version |-> version, Manufacturer |-> manufacturer,
                 Type |-> tpmType, Platform |-> "windows",
                 Capabilities |-> capabilities,
                 HardwareKeySupport |-> tpm.IsEnabled /\ tpm.IsActivated])

\* macOS, C side.  s.arm64: sysctl hw.optional.arm64; s.accessNull:
\* SecAccessControlCreateWithFlags returned NULL; s.key: SecKeyCreateRandomKey
\* returned a key; s.errCode: the CFError code, 0 when no error was set.
tpm_isAppleSilicon(s) == s.arm64

ErrSecUnimplemented == 0 - 4

\* Faulty variant of tpm_testSecureEnclaveAvailable: every error of the key
\* creation is taken as "no Secure Enclave".
tpm_testSecureEnclaveAvailable_errorIsAbsent(s) ==
    IF tpm_isAppleSilicon(s) THEN 1
    ELSE IF s.accessNull THEN 0
    ELSE IF s.key THEN 1
    ELSE 0

tpm_testSecureEnclaveAvailable(s) ==
    IF tpm_isAppleSilicon(s) THEN 1
    ELSE IF s.accessNull THEN 0
    ELSE IF s.key THEN 1
    ELSE IF s.errCode /= 0
         THEN (IF s.errCode = ErrSecUnimplemented THEN 0 ELSE 1)
    ELSE 0

tpm_getPlatformType(s) ==
    IF tpm_isAppleSilicon(s) THEN "apple_silicon" ELSE "intel"

GetTPMStatus_darwin(s) ==
    LET seAvailable == tpm_testSecureEnclaveAvailable(s) = 1
        platform    == tpm_getPlatformType(s)
        silicon     == platform = "apple_silicon"
    IN  Ok([Present |-> seAvailable, Enabled |-> seAvailable,
            Version |-> IF silicon THEN "Secure Enclave (Apple Silicon)"
                        ELSE "Secure Enclave (T2)",
            Manufacturer |-> "Apple",
            Type |-> IF silicon THEN "secure_enclave" ELSE "secure_enclave_t2",
            Platform |-> platform,
            Capabilities |->
                IF silicon
                THEN <<"hardware_key_generation", "hardware_key_storage",
                       "biometric_authentication", "secure_boot",
                       "encrypted_memory">>
                ELSE <<"hardware_key_generation", "hardware_key_storage",
                       "biometric_authentication", "secure_boot">>,
            HardwareKeySupport |-> seAvailable])

----------------------------------------------------------------------------
(* Secure Boot detectors *)

\* Linux.  s.efiStat: outcome of os.Stat("/sys/firmware/efi") ("ok",
\* "notexist", or "other" for any other error); s.sbErr, s.sbData:
\* os.ReadFile of the SecureBoot variable (bytes); s.efivarsOk: os.Stat of
\* the efivars directory; s.setupErr, s.setupData: os.ReadFile of SetupMode.
SetupModeSuffix == " (Setup Mode active - keys can be modified)"

\* Faulty variant of secureBootValue: the attribute header is not skipped.
secureBootValue_noHeader(data) == data[1]

\* data[4], the byte after the 4 attribute bytes (sequences count from 1)
secureBootValue(data) == data[5]

\* Faulty variant of setupModeActive: the attribute header is not skipped.
setupModeActive_header(s) ==
    ~s.setupErr /\ Len(s.setupData) >= 5 /\ s.setupData[1] = 1

\* the SetupMode variable was read, has a value byte, and that byte is 1
setupModeActive(s) ==
    ~s.setupErr /\ Len(s.setupData) >= 5 /\ s.setupData[5] = 1

\* Faulty variant of efiDirMissing: the SecureBoot variable is read first and
\* the directory is only looked at when that read fails.
efiDirMissing_afterRead(s) == s.sbErr /\ s.efiStat = "notexist"

\* os.IsNotExist(err) for the os.Stat of /sys/firmware/efi
efiDirMissing(s) == s.efiStat = "notexist"

GetSecureBootStatus_linux(s) ==
    LET result == [Enabled |-> FALSE, Platform |-> "linux", Mode |-> "",
                   PolicyVersion |-> "", SecureBootType |-> "", Details |-> ""]
    IN  IF efiDirMissing(s)
        THEN Ok([result EXCEPT !.Enabled = FALSE, !.Mode = "legacy_bios",
                               !.SecureBootType = "none",
                               !.Details = "System booted in Legacy BIOS mode"])
        ELSE LET r1 == [result EXCEPT !.SecureBootType = "uefi_secure_boot"]
             IN  IF s.sbErr
                 THEN Ok([r1 EXCEPT !.Mode = "unknown",
                            !.Details = "Unable to read Secure Boot variable (may require root)",
                            !.Enabled = FALSE])
                 ELSE LET r2 ==
                              IF Len(s.sbData) >= 5
                              THEN IF secureBootValue(s.sbData) = 1
                                   THEN [r1 EXCEPT !.Enabled = TRUE,
                                            !.Mode = "enabled",
                                            !.Details = "UEFI Secure Boot is enabled"]
                                   ELSE [r1 EXCEPT !.Enabled = FALSE,
                                            !.Mode = "disabled",
                                            !.Details = "UEFI Secure Boot is disabled"]
                              ELSE [r1 EXCEPT !.Mode = "unknown",
                                       !.Details = "Unable to parse Secure Boot variable"]
                          setup == setupModeActive(s)
                      IN  Ok(IF setup
                             THEN [r2 EXCEPT !.Details = @ \o SetupModeSuffix]
                             ELSE r2)

\* macOS.  s.sysctlErr, s.sysctlOut: `sysctl -n hw.optional.arm64` (trimmed);
\* s.bputilErr, s.bputil: `bputil -d` and the probed phrases in its output;
\* s.nvramErr, s.nvram: `nvram <AppleSecureBootPolicy>` and its output
\* (character tuple); s.profilerErr, s.profilerT2: `system_profiler
\* SPiBridgeDataType` and whether its output contains "T2".
GetSecureBootStatus_darwin(s) ==
    LET result == [Enabled |-> FALSE, Platform |-> "darwin", Mode |-> "",
                   PolicyVersion |-> "", SecureBootType |-> "", Details |-> ""]
        isAppleSilicon == ~s.sysctlErr /\ s.sysctlOut = "1"
    IN  IF isAppleSilicon
        THEN LET r1 == [result EXCEPT !.SecureBootType = "apple_secure_boot"]
             IN  IF ~s.bputilErr
                 THEN IF "Full Security" \in s.bputil
                      THEN Ok([r1 EXCEPT !.Enabled = TRUE, !.Mode = "full",
                                         !.Details = "Full Security Mode"])
                      ELSE IF "Reduced Security" \in s.bputil
                      THEN Ok([r1 EXCEPT !.Enabled = TRUE, !.Mode = "reduced",
                                         !.Details = "Reduced Security Mode"])
                      ELSE IF "Permissive Security" \in s.bputil
                      THEN Ok([r1 EXCEPT !.Enabled = FALSE,
                                         !.Mode = "permissive",
                                         !.Details = "Permissive Security Mode"])
                      ELSE Ok([r1 EXCEPT !.Enabled = TRUE, !.Mode = "unknown"])
                 ELSE Ok([r1 EXCEPT !.Enabled = TRUE, !.Mode = "assumed_full",
                            !.Details = "Apple Silicon default (verification requires admin)"])
        ELSE LET r1 == [result EXCEPT !.SecureBootType = "t2_secure_boot"]
             IN  IF ~s.nvramErr
                 THEN IF Contains(s.nvram, <<"%", "0", "2">>)
                         \/ Contains(s.nvram, <<"2">>)
                      THEN Ok([r1 EXCEPT !.Enabled = TRUE, !.Mode = "full",
                                         !.Details = "Full Security"])
                      ELSE IF Contains(s.nvram, <<"%", "0", "1">>)
                              \/ Contains(s.nvram, <<"1">>)
                      THEN Ok([r1 EXCEPT !.Enabled = TRUE, !.Mode = "medium",
                                         !.Details = "Medium Security"])
                      ELSE Ok([r1 EXCEPT !.Enabled = FALSE, !.Mode = "none",
                                         !.Details = "No Security"])
                 ELSE IF ~s.profilerErr /\ s.profilerT2
                      THEN Ok([r1 EXCEPT !.Enabled = TRUE, !.Mode = "assumed",
                                 !.Details = "T2 chip detected (verification requires admin)"])
                      ELSE Ok([r1 EXCEPT !.Enabled = FALSE,
                                 !.Mode = "unavailable",
                                 !.Details = "No T2 chip - Secure Boot not available",
                                 !.SecureBootType = "none"])

\* Windows: the detector's file is not part of the sources at hand; it
\* returns a status record or a query error, s.out.
GetSecureBootStatus_windows(s) == s.out

----------------------------------------------------------------------------
(* Disk encryption detectors *)

\* macOS, getEncryptedVolumes.  s.apfsErr, s.apfs: `diskutil apfs list
\* -plist` and the probed phrases in its output; s.infoErr, s.info:
\* `diskutil info /` and the probed phrases in its output; s.volName: the
\* text after "Volume Name:" in that output, "" when there is none.
getEncryptedVolumes(s) ==
    IF s.apfsErr
    THEN IF ~s.infoErr
         THEN LET vol == [Name |-> "Macintosh HD", MountPoint |-> "/",
                          Encrypted |-> FALSE, Status |-> ""]
              IN  IF "FileVault:" \in s.info /\ "Yes" \in s.info
                  THEN <<[vol EXCEPT !.Encrypted = TRUE, !.Status = "encrypted"]>>
                  ELSE IF "Encrypted:" \in s.info /\ "Yes" \in s.info
                  THEN <<[vol EXCEPT !.Encrypted = TRUE, !.Status = "encrypted"]>>
                  ELSE <<[vol EXCEPT !.Encrypted = FALSE,
                                     !.Status = "not_encrypted"]>>
         ELSE <<>>
    ELSE IF ("Encryption" \in s.apfs \/ "FileVault" \in s.apfs) /\ ~s.infoErr
         THEN LET vol == [Name |-> IF s.volName = "" THEN "System Volume"
                                   ELSE s.volName,
                          MountPoint |-> "/", Encrypted |-> FALSE,
                          Status |-> ""]
              IN  IF "Yes (Unlocked)" \in s.info
                     \/ ("Encrypted:" \in s.info /\ "Yes" \in s.info)
                  THEN <<[vol EXCEPT !.Encrypted = TRUE,
                                     !.Status = "encrypted_unlocked"]>>
                  ELSE <<[vol EXCEPT !.Encrypted = FALSE,
                                     !.Status = "not_encrypted"]>>
         ELSE <<>>

\* macOS (FileVault).  s.fdeErr, s.fde, s.fdeText: `fdesetup status`, the
\* probed phrases in its output and the trimmed output itself.
GetEncryptionStatus_darwin(s) ==
    LET result == [Enabled |-> FALSE, Platform |-> "darwin",
                   Type |-> "filevault", Status |-> "",
                   EncryptedVolumes |-> <<>>, Details |-> ""]
    IN  IF s.fdeErr
        THEN Ok([result EXCEPT !.Status = "unknown",
                   !.Details = "Unable to determine FileVault status (may require admin)"])
        ELSE LET r1 ==
                     IF "FileVault is On" \in s.fde
                     THEN IF "Encryption in progress" \in s.fde
                          THEN [result EXCEPT !.Enabled = TRUE,
                                   !.Status = "encrypting",
                                   !.Details = "FileVault encryption in progress"]
                          ELSE IF "Decryption in progress" \in s.fde
                          THEN [result EXCEPT !.Enabled = TRUE,
                                   !.Status = "decrypting",
                                   !.Details = "FileVault decryption in progress"]
                          ELSE [result EXCEPT !.Enabled = TRUE,
                                   !.Status = "enabled",
                                   !.Details = "FileVault disk encryption is enabled"]
                     ELSE IF "FileVault is Off" \in s.fde
                     THEN [result EXCEPT !.Enabled = FALSE,
                              !.Status = "disabled",
                              !.Details = "FileVault disk encryption is disabled"]
                     ELSE [result EXCEPT !.Status = "unknown",
                                         !.Details = s.fdeText]
             IN  Ok([r1 EXCEPT !.EncryptedVolumes = getEncryptedVolumes(s)])

\* Windows (BitLocker): the status of one Win32_EncryptableVolume row.
BitLockerVolume(vol) ==
    LET ev == [Name |-> "Volume " \o vol.DriveLetter,
               MountPoint |-> vol.DriveLetter,
               Encrypted |-> FALSE, Status |-> ""]
    IN  IF vol.ProtectionStatus = 1
        THEN [ev EXCEPT !.Encrypted = TRUE,
                        !.Status = CASE vol.ConversionStatus = 1 -> "encrypted"
                                     [] vol.ConversionStatus = 2 -> "encrypting"
                                     [] vol.ConversionStatus = 3 -> "decrypting"
                                     [] vol.ConversionStatus = 4 -> "encryption_paused"
                                     [] vol.ConversionStatus = 5 -> "decryption_paused"
                                     [] OTHER -> "protected"]
        ELSE [ev EXCEPT !.Encrypted = FALSE, !.Status = "not_encrypted"]

\* Faulty variant of GetEncryptionStatus_windows: the status is taken from
\* the first volume alone, the enabled flag from all of them.
GetEncryptionStatus_windows_statusOfFirst(s) ==
    LET result == [Enabled |-> FALSE, Platform |-> "windows",
                   Type |-> "bitlocker", Status |-> "",
                   EncryptedVolumes |-> <<>>, Details |-> ""]
    IN  IF s.queryErr \/ Len(s.volumes) = 0
        THEN Ok([result EXCEPT !.Status = "unknown",
                   !.Details = "Unable to query BitLocker status (may require admin privileges)"])
        ELSE LET encryptedVolumes ==
                     [i \in 1..Len(s.volumes) |-> BitLockerVolume(s.volumes[i])]
                 anyEnabled ==
                     \E i \in 1..Len(s.volumes) : s.volumes[i].ProtectionStatus = 1
                 firstEnabled == s.volumes[1].ProtectionStatus = 1
             IN  Ok([result EXCEPT
                       !.EncryptedVolumes = encryptedVolumes,
                       !.Enabled = anyEnabled,
                       !.Status = IF firstEnabled THEN "enabled" ELSE "disabled",
                       !.Details = IF anyEnabled
                           THEN "BitLocker disk encryption is enabled on one or more volumes"
                           ELSE "BitLocker disk encryption is not enabled on any volume"])

\* Windows.  s.queryErr: wmi.QueryNamespace failed; s.volumes: the rows of
\* Win32_EncryptableVolume.
GetEncryptionStatus_windows(s) ==
    LET result == [Enabled |-> FALSE, Platform |-> "windows",
                   Type |-> "bitlocker", Status |-> "",
                   EncryptedVolumes |-> <<>>, Details |-> ""]
    IN  IF s.queryErr \/ Len(s.volumes) = 0
        THEN Ok([result EXCEPT !.Status = "unknown",
                   !.Details = "Unable to query BitLocker status (may require admin privileges)"])
        ELSE LET encryptedVolumes ==
                     [i \in 1..Len(s.volumes) |-> BitLockerVolume(s.volumes[i])]
                 anyEnabled ==
                     \E i \in 1..Len(s.volumes) : s.volumes[i].ProtectionStatus = 1
             IN  Ok([result EXCEPT
                       !.EncryptedVolumes = encryptedVolumes,
                       !.Enabled = anyEnabled,
                       !.Status = IF anyEnabled THEN "enabled" ELSE "disabled",
                       !.Details = IF anyEnabled
                           THEN "BitLocker disk encryption is enabled on one or more volumes"
                           ELSE "BitLocker disk encryption is not enabled on any volume"])

\* filepath.Base of a slash-separated path without trailing slash
Base(path) ==
    LET slashes == {i \in 1..Len(path) : path[i] = "/"}
    IN  IF slashes = {} THEN path
        ELSE SubSeq(path, (CHOOSE i \in slashes : \A j \in slashes : j <= i) + 1,
                    Len(path))

ControlName == <<"c", "o", "n", "t", "r", "o", "l">>

LuksSuffix == <<" ", "(", "L", "U", "K", "S", ")">>

\* Linux, first loop: the entries of /dev/mapper that dmsetup reports as
\* crypt targets.  An entry is [name, crypt (dmsetup succeeded and its table
\* contains "crypt"), findmntErr, mount].
RECURSIVE MapperVolumes(_, _)
MapperVolumes(entries, acc) ==
    IF entries = <<>> THEN acc
    ELSE LET entry == Head(entries)
         IN  IF entry.name = ControlName
             THEN MapperVolumes(Tail(entries), acc)
             ELSE IF entry.crypt
             THEN MapperVolumes(Tail(entries),
                      Append(acc, [Name |-> entry.name,
                                   MountPoint |-> IF entry.findmntErr THEN ""
                                                  ELSE entry.mount,
                                   Encrypted |-> TRUE,
                                   Status |-> "encrypted_active"]))
             ELSE MapperVolumes(Tail(entries), acc)

\* os.Stat(filepath.Join("/dev/mapper", name)) succeeds
MapperNodeExists(s, name) ==
    \E i \in 1..Len(s.mapper) : s.mapper[i].name = name

\* Linux, second loop: the lines of /etc/crypttab, each line the tuple of its
\* whitespace-separated fields (strings.Fields of the trimmed line).
RECURSIVE CrypttabVolumes(_, _, _)
CrypttabVolumes(s, lines, acc) ==
    IF lines = <<>> THEN acc
    ELSE LET fields == Head(lines)
         IN  IF fields = <<>> \/ (Head(fields) /= <<>> /\ Head(Head(fields)) = "#")
             THEN CrypttabVolumes(s, Tail(lines), acc)
             ELSE IF Len(fields) >= 2
             THEN LET name  == fields[1]
                      found == \E i \in 1..Len(acc) : acc[i].Name = name
                  IN  IF ~found
                      THEN CrypttabVolumes(s, Tail(lines),
                               Append(acc, [Name |-> name, MountPoint |-> "",
                                            Encrypted |-> TRUE,
                                            Status |-> IF MapperNodeExists(s, name)
                                                       THEN "configured_active"
                                                       ELSE "configured_inactive"]))
                      ELSE CrypttabVolumes(s, Tail(lines), acc)
             ELSE CrypttabVolumes(s, Tail(lines), acc)

\* Faulty variant of alreadyMapped: the names are compared for equality.
alreadyMapped_sameName(acc, name) ==
    \E i \in 1..Len(acc) : acc[i].Name = name

\* the "already mapped" test of the third loop: strings.Contains(vol.Name,
\* name) for some listed volume
alreadyMapped(acc, name) ==
    \E i \in 1..Len(acc) : Contains(acc[i].Name, name)

\* Linux, third loop: the block devices matched by /dev/sd* and /dev/nvme*,
\* each [dev (path), isLuks (`cryptsetup isLuks` succeeded)].
RECURSIVE LuksVolumes(_, _)
LuksVolumes(devs, acc) ==
    IF devs = <<>> THEN acc
    ELSE LET d == Head(devs)
         IN  IF HasSuffix(d.dev, <<"0">>)
             THEN LuksVolumes(Tail(devs), acc)
             ELSE IF d.isLuks
             THEN LET name  == Base(d.dev)
                      found == alreadyMapped(acc, name)
                  IN  IF ~found
                      THEN LuksVolumes(Tail(devs),
                               Append(acc, [Name |-> name \o LuksSuffix,
                                            MountPoint |-> "",
                                            Encrypted |-> TRUE,
                                            Status |-> "luks_device"]))
                      ELSE LuksVolumes(Tail(devs), acc)
             ELSE LuksVolumes(Tail(devs), acc)

\* Faulty variant of GetEncryptionStatus_linux: the crypttab loop starts from
\* an empty list, so its names are compared with each other only and not
\* with the volumes found in /dev/mapper.
GetEncryptionStatus_linux_crypttabApart(s) ==
    LET v1 == IF s.mapperErr THEN <<>> ELSE MapperVolumes(s.mapper, <<>>)
        v2 == IF s.crypttabErr THEN v1
              ELSE v1 \o CrypttabVolumes(s, s.crypttab, <<>>)
        encryptedVolumes == LuksVolumes(s.blockDevs, v2)
    IN  Ok([Enabled |-> Len(encryptedVolumes) > 0, Platform |-> "linux",
            Type |-> "luks",
            Status |-> IF Len(encryptedVolumes) > 0 THEN "enabled" ELSE "disabled",
            EncryptedVolumes |-> encryptedVolumes,
            Details |-> IF Len(encryptedVolumes) > 0
                        THEN "LUKS/dm-crypt encryption detected"
                        ELSE "No LUKS/dm-crypt encrypted volumes detected"])

\* Linux (LUKS / dm-crypt).  s.mapperErr, s.mapper: os.ReadDir("/dev/mapper");
\* s.crypttabErr, s.crypttab: os.ReadFile("/etc/crypttab"); s.blockDevs: the
\* glob results, /dev/sd* before /dev/nvme*.
GetEncryptionStatus_linux(s) ==
    LET v1 == IF s.mapperErr THEN <<>> ELSE MapperVolumes(s.mapper, <<>>)
        v2 == IF s.crypttabErr THEN v1 ELSE CrypttabVolumes(s, s.crypttab, v1)
        encryptedVolumes == LuksVolumes(s.blockDevs, v2)
    IN  Ok([Enabled |-> Len(encryptedVolumes) > 0, Platform |-> "linux",
            Type |-> "luks",
            Status |-> IF Len(encryptedVolumes) > 0 THEN "enabled" ELSE "disabled",
            EncryptedVolumes |-> encryptedVolumes,
            Details |-> IF Len(encryptedVolumes) > 0
                        THEN "LUKS/dm-crypt encryption detected"
                        ELSE "No LUKS/dm-crypt encrypted volumes detected"])

----------------------------------------------------------------------------
(* Biometrics detectors *)

\* Linux.  s.fprintd: exec.LookPath("fprintd-list") succeeded; s.fprintdErr,
\* s.fprintdHas: `fprintd-list $USER` and whether its output contains
\* "fingerprint"; s.howdy: exec.LookPath("howdy") succeeded; s.howdyErr,
\* s.howdyNone: `howdy list` and whether its output contains "No face models".
GetBiometricCapabilities_linux(s) ==
    LET fprintdEnrolled == s.fprintd /\ ~s.fprintdErr /\ s.fprintdHas
        howdyConfigured == s.howdy /\ ~s.howdyErr /\ ~s.howdyNone
    IN  Ok([TouchIDAvailable |-> s.fprintd, TouchIDEnrolled |-> fprintdEnrolled,
            FaceIDAvailable |-> s.howdy, FaceIDEnrolled |-> howdyConfigured,
            BiometryType |-> IF s.fprintd /\ s.howdy THEN "fingerprint_and_face"
                             ELSE IF s.fprintd THEN "fingerprint"
                             ELSE IF s.howdy THEN "face"
                             ELSE "none",
            FprintdAvailable |-> s.fprintd, FprintdEnrolled |-> fprintdEnrolled,
            HowdyAvailable |-> s.howdy, HowdyConfigured |-> howdyConfigured,
            Platform |-> "linux"])

\* Windows.  s.winbio: winbio.dll loads.
checkFingerprintSensor(s) == s.winbio

checkFaceRecognition(s) == FALSE

checkWindowsHelloConfigured(s) == FALSE

GetBiometricCapabilities_windows(s) ==
    LET fingerprintAvailable == checkFingerprintSensor(s)
        faceAvailable        == checkFaceRecognition(s)
        helloConfigured      == checkWindowsHelloConfigured(s)
    IN  Ok([TouchIDAvailable |-> fingerprintAvailable,
            TouchIDEnrolled |-> ~(fingerprintAvailable /\ faceAvailable)
                                /\ fingerprintAvailable /\ helloConfigured,
            FaceIDAvailable |-> faceAvailable,
            FaceIDEnrolled |-> ~fingerprintAvailable /\ faceAvailable
                               /\ helloConfigured,
            BiometryType |-> IF fingerprintAvailable /\ faceAvailable
                             THEN "fingerprint_and_face"
                             ELSE IF fingerprintAvailable THEN "fingerprint"
                             ELSE IF faceAvailable THEN "face"
                             ELSE "none",
            WindowsHelloAvailable |-> fingerprintAvailable \/ faceAvailable,
            WindowsHelloConfigured |-> helloConfigured,
            FingerprintAvailable |-> fingerprintAvailable,
            FingerprintEnrolled |-> FALSE,
            FacialRecognition |-> faceAvailable,
            PINConfigured |-> FALSE,
            Platform |-> "windows"])

\* macOS, C side.  s.canEvaluate: canEvaluatePolicy; s.biometryType:
\* context.biometryType (1 Touch ID, 2 Face ID); s.hasError, s.notEnrolled:
\* an NSError was set, and its code is LAErrorBiometryNotEnrolled.
LABiometryTypeTouchID == 1

LABiometryTypeFaceID == 2

getBiometricInfo(s) ==
    LET info == [touchIDAvailable |-> 0, touchIDEnrolled |-> 0,
                 faceIDAvailable |-> 0, faceIDEnrolled |-> 0,
                 biometryType |-> 0]
    IN  IF s.canEvaluate
        THEN IF s.biometryType = LABiometryTypeTouchID
             THEN [info EXCEPT !.biometryType = s.biometryType,
                               !.touchIDAvailable = 1, !.touchIDEnrolled = 1]
             ELSE IF s.biometryType = LABiometryTypeFaceID
             THEN [info EXCEPT !.biometryType = s.biometryType,
                               !.faceIDAvailable = 1, !.faceIDEnrolled = 1]
             ELSE [info EXCEPT !.biometryType = s.biometryType]
        ELSE IF s.hasError
        THEN IF s.notEnrolled /\ s.biometryType = LABiometryTypeTouchID
             THEN [info EXCEPT !.biometryType = s.biometryType,
                               !.touchIDAvailable = 1]
             ELSE IF s.notEnrolled /\ s.biometryType = LABiometryTypeFaceID
             THEN [info EXCEPT !.biometryType = s.biometryType,
                               !.faceIDAvailable = 1]
             ELSE [info EXCEPT !.biometryType = s.biometryType]
        ELSE info

GetBiometricCapabilities_darwin(s) ==
    LET bioInfo == getBiometricInfo(s)
    IN  Ok([TouchIDAvailable |-> bioInfo.touchIDAvailable = 1,
            TouchIDEnrolled |-> bioInfo.touchIDEnrolled = 1,
            FaceIDAvailable |-> bioInfo.faceIDAvailable = 1,
            FaceIDEnrolled |-> bioInfo.faceIDEnrolled = 1,
            BiometryType |-> CASE bioInfo.biometryType = 1 -> "touch_id"
                               [] bioInfo.biometryType = 2 -> "face_id"
                               [] OTHER -> "none"])

\* Platforms other than darwin, windows, linux.
GetBiometricCapabilities_other(s) ==
    Fail("biometric capabilities are not available on this platform")

\* The three detectors below and their gates belong to files that are not
\* part of the sources at hand (the fallback variants for other platforms).
GetTPMStatus_other(s) ==
    Fail("TPM is not available on this platform")

GetSecureBootStatus_other(s) ==
    Fail("secure boot is not available on this platform")

GetEncryptionStatus_other(s) ==
    Fail("encryption status is not available on this platform")

----------------------------------------------------------------------------
(* Capability gates, one per feature and build *)

IsTPMSupported_linux == TRUE

IsTPMSupported_windows == TRUE

IsTPMSupported_darwin == TRUE

IsTPMSupported_other == FALSE

IsSecureBootSupported_linux == TRUE

IsSecureBootSupported_windows == TRUE

IsSecureBootSupported_darwin == TRUE

IsSecureBootSupported_other == FALSE

IsEncryptionSupported_linux == TRUE

IsEncryptionSupported_windows == TRUE

IsEncryptionSupported_darwin == TRUE

IsEncryptionSupported_other == FALSE

IsBiometricsSupported_linux == TRUE

IsBiometricsSupported_windows == TRUE

IsBiometricsSupported_darwin == TRUE

IsBiometricsSupported_other == FALSE

----------------------------------------------------------------------------
(* Build selection: the file compiled for runtime.GOOS *)

IsTPMSupported(os) ==
    CASE os = "linux"   -> IsTPMSupported_linux
      [] os = "windows" -> IsTPMSupported_windows
      [] os = "darwin"  -> IsTPMSupported_darwin
      [] OTHER          -> IsTPMSupported_other

IsSecureBootSupported(os) ==
    CASE os = "linux"   -> IsSecureBootSupported_linux
      [] os = "windows" -> IsSecureBootSupported_windows
      [] os = "darwin"  -> IsSecureBootSupported_darwin
      [] OTHER          -> IsSecureBootSupported_other

IsEncryptionSupported(os) ==
    CASE os = "linux"   -> IsEncryptionSupported_linux
      [] os = "windows" -> IsEncryptionSupported_windows
      [] os = "darwin"  -> IsEncryptionSupported_darwin
      [] OTHER          -> IsEncryptionSupported_other

IsBiometricsSupported(os) ==
    CASE os = "linux"   -> IsBiometricsSupported_linux
      [] os = "windows" -> IsBiometricsSupported_windows
      [] os = "darwin"  -> IsBiometricsSupported_darwin
      [] OTHER          -> IsBiometricsSupported_other

GetTPMStatus(os, s) ==
    CASE os = "linux"   -> GetTPMStatus_linux(s)
      [] os = "windows" -> GetTPMStatus_windows(s)
      [] os = "darwin"  -> GetTPMStatus_darwin(s)
      [] OTHER          -> GetTPMStatus_other(s)

GetSecureBootStatus(os, s) ==
    CASE os = "linux"   -> GetSecureBootStatus_linux(s)
      [] os = "windows" -> GetSecureBootStatus_windows(s)
      [] os = "darwin"  -> GetSecureBootStatus_darwin(s)
      [] OTHER          -> GetSecureBootStatus_other(s)

GetEncryptionStatus(os, s) ==
    CASE os = "linux"   -> GetEncryptionStatus_linux(s)
      [] os = "windows" -> GetEncryptionStatus_windows(s)
      [] os = "darwin"  -> GetEncryptionStatus_darwin(s)
      [] OTHER          -> GetEncryptionStatus_other(s)

GetBiometricCapabilities(os, s) ==
    CASE os = "linux"   -> GetBiometricCapabilities_linux(s)
      [] os = "windows" -> GetBiometricCapabilities_windows(s)
      [] os = "darwin"  -> GetBiometricCapabilities_darwin(s)
      [] OTHER          -> GetBiometricCapabilities_other(s)

----------------------------------------------------------------------------
(* The aggregator, GetSecuritySummary *)

\* What one category block of GetSecuritySummary does: whether it invoked the
\* detector, the summary field it set, the points it added and the
\* recommendations it appended.
Skipped == [queried |-> FALSE, field |-> Null, points |-> 0, recs |-> <<>>]

\* Faulty variant of SummarizeTPM: the detector is invoked without asking
\* the gate.
SummarizeTPM_ungated(gate, o) ==
    IF o.err /= Null THEN [Skipped EXCEPT !.queried = TRUE]
    ELSE LET tpmResult == Deref(o.val)
         IN  [queried |-> TRUE,
              field |-> Ptr([Present |-> tpmResult.Present,
                             Enabled |-> tpmResult.Enabled,
                             Type |-> tpmResult.Type]),
              points |-> IF tpmResult.Present /\ tpmResult.Enabled THEN 25 ELSE 0,
              recs |-> IF tpmResult.Present /\ tpmResult.Enabled THEN <<>>
                       ELSE IF ~tpmResult.Present
                       THEN <<"Hardware security module (TPM/Secure Enclave) not detected">>
                       ELSE <<>>]

\* gate: the return of IsTPMSupported(); o: the return of GetTPMStatus()
SummarizeTPM(gate, o) ==
    IF ~gate THEN Skipped
    ELSE IF o.err /= Null THEN [Skipped EXCEPT !.queried = TRUE]
    ELSE LET tpmResult == Deref(o.val)
         IN  [queried |-> TRUE,
              field |-> Ptr([Present |-> tpmResult.Present,
                             Enabled |-> tpmResult.Enabled,
                             Type |-> tpmResult.Type]),
              points |-> IF tpmResult.Present /\ tpmResult.Enabled THEN 25 ELSE 0,
              recs |-> IF tpmResult.Present /\ tpmResult.Enabled THEN <<>>
                       ELSE IF ~tpmResult.Present
                       THEN <<"Hardware security module (TPM/Secure Enclave) not detected">>
                       ELSE <<>>]

\* Faulty variant of SummarizeSecureBoot: a detector error is reported as a
\* disabled Secure Boot.
SummarizeSecureBoot_errAsDisabled(gate, o) ==
    IF ~gate THEN Skipped
    ELSE IF o.err /= Null
    THEN [Skipped EXCEPT !.queried = TRUE,
                         !.recs = <<"Enable Secure Boot for enhanced boot security">>]
    ELSE LET bootResult == Deref(o.val)
         IN  [queried |-> TRUE,
              field |-> Ptr([Enabled |-> bootResult.Enabled,
                             Mode |-> bootResult.Mode]),
              points |-> IF bootResult.Enabled THEN 25 ELSE 0,
              recs |-> IF bootResult.Enabled THEN <<>>
                       ELSE <<"Enable Secure Boot for enhanced boot security">>]

SummarizeSecureBoot(gate, o) ==
    IF ~gate THEN Skipped
    ELSE IF o.err /= Null THEN [Skipped EXCEPT !.queried = TRUE]
    ELSE LET bootResult == Deref(o.val)
         IN  [queried |-> TRUE,
              field |-> Ptr([Enabled |-> bootResult.Enabled,
                             Mode |-> bootResult.Mode]),
              points |-> IF bootResult.Enabled THEN 25 ELSE 0,
              recs |-> IF bootResult.Enabled THEN <<>>
                       ELSE <<"Enable Secure Boot for enhanced boot security">>]

\* Faulty variant of encType: the switch on runtime.GOOS is missing.
encType_generic(os) == "disk encryption"

\* the switch on runtime.GOOS that names the encryption technology
encType(os) ==
    CASE os = "darwin"  -> "FileVault"
      [] os = "windows" -> "BitLocker"
      [] os = "linux"   -> "LUKS"
      [] OTHER          -> "disk encryption"

SummarizeEncryption(os, gate, o) ==
    IF ~gate THEN Skipped
    ELSE IF o.err /= Null THEN [Skipped EXCEPT !.queried = TRUE]
    ELSE LET encResult == Deref(o.val)
         IN  [queried |-> TRUE,
              field |-> Ptr([Enabled |-> encResult.Enabled,
                             Type |-> encResult.Type,
                             Status |-> encResult.Status]),
              points |-> IF encResult.Enabled THEN 25 ELSE 0,
              recs |-> IF encResult.Enabled THEN <<>>
                       ELSE <<"Enable " \o encType(os) \o " to protect data at rest">>]

\* Faulty variant of SummarizeBiometrics: an available but unenrolled
\* modality earns the points.
SummarizeBiometrics_available(gate, o) ==
    IF ~gate THEN Skipped
    ELSE IF o.err /= Null THEN [Skipped EXCEPT !.queried = TRUE]
    ELSE LET bioResult  == Deref(o.val)
             available  == bioResult.TouchIDAvailable \/ bioResult.FaceIDAvailable
             configured == bioResult.TouchIDEnrolled \/ bioResult.FaceIDEnrolled
         IN  [queried |-> TRUE,
              field |-> Ptr([Available |-> available,
                             Configured |-> configured,
                             Type |-> bioResult.BiometryType]),
              points |-> IF available THEN 25 ELSE 0,
              recs |-> IF configured THEN <<>>
                       ELSE IF available
                       THEN <<"Configure biometric authentication for enhanced security">>
                       ELSE <<>>]

SummarizeBiometrics(gate, o) ==
    IF ~gate THEN Skipped
    ELSE IF o.err /= Null THEN [Skipped EXCEPT !.queried = TRUE]
    ELSE LET bioResult  == Deref(o.val)
             available  == bioResult.TouchIDAvailable \/ bioResult.FaceIDAvailable
             configured == bioResult.TouchIDEnrolled \/ bioResult.FaceIDEnrolled
         IN  [queried |-> TRUE,
              field |-> Ptr([Available |-> available,
                             Configured |-> configured,
                             Type |-> bioResult.BiometryType]),
              points |-> IF configured THEN 25 ELSE 0,
              recs |-> IF configured THEN <<>>
                       ELSE IF available
                       THEN <<"Configure biometric authentication for enhanced security">>
                       ELSE <<>>]

\* Faulty variant of OverallStatus: the cases tried in ascending order.
OverallStatus_ascending(score) ==
    IF score >= 25 THEN "needs_improvement"
    ELSE IF score >= 50 THEN "fair"
    ELSE IF score >= 75 THEN "good"
    ELSE IF score >= 100 THEN "excellent"
    ELSE "critical"

\* the switch on score that sets summary.OverallStatus
OverallStatus(score) ==
    IF score >= 100 THEN "excellent"
    ELSE IF score >= 75 THEN "good"
    ELSE IF score >= 50 THEN "fair"
    ELSE IF score >= 25 THEN "needs_improvement"
    ELSE "critical"

\* The four category blocks in program order, on the host (os, t, b, e, m).
CategoryBlocks(os, t, b, e, m) ==
    [tpm         |-> SummarizeTPM(IsTPMSupported(os), GetTPMStatus(os, t)),
     secure_boot |-> SummarizeSecureBoot(IsSecureBootSupported(os),
                                         GetSecureBootStatus(os, b)),
     encryption  |-> SummarizeEncryption(os, IsEncryptionSupported(os),
                                         GetEncryptionStatus(os, e)),
     biometrics  |-> SummarizeBiometrics(IsBiometricsSupported(os),
                                         GetBiometricCapabilities(os, m))]

\* Faulty variant of AppendRecommendations: the biometrics block runs first.
AppendRecommendations_biometricsFirst(c) ==
    c.biometrics.recs \o c.tpm.recs \o c.secure_boot.recs \o c.encryption.recs

\* the appends to `recommendations`, in the order the blocks execute
AppendRecommendations(c) ==
    c.tpm.recs \o c.secure_boot.recs \o c.encryption.recs \o c.biometrics.recs

\* Faulty variant of GetSecuritySummary: the biometrics block forgets to
\* add its points.
GetSecuritySummary_dropsBiometrics(os, t, b, e, m) ==
    LET c     == CategoryBlocks(os, t, b, e, m)
        score == c.tpm.points + c.secure_boot.points + c.encryption.points
        recommendations == AppendRecommendations(c)
    IN  Ok([Platform |-> os, OverallScore |-> score,
            OverallStatus |-> OverallStatus(score),
            TPM |-> c.tpm.field, SecureBoot |-> c.secure_boot.field,
            Encryption |-> c.encryption.field,
            Biometrics |-> c.biometrics.field,
            Recommendations |-> recommendations])

GetSecuritySummary(os, t, b, e, m) ==
    LET c     == CategoryBlocks(os, t, b, e, m)
        score == c.tpm.points + c.secure_boot.points
                 + c.encryption.points + c.biometrics.points
        recommendations == AppendRecommendations(c)
    IN  Ok([Platform |-> os, OverallScore |-> score,
            OverallStatus |-> OverallStatus(score),
            TPM |-> c.tpm.field, SecureBoot |-> c.secure_boot.field,
            Encryption |-> c.encryption.field,
            Biometrics |-> c.biometrics.field,
            Recommendations |-> recommendations])

\* the detectors GetSecuritySummary invokes on that host
QueriedBy(os, t, b, e, m) ==
    {k \in Categories : CategoryBlocks(os, t, b, e, m)[k].queried}

----------------------------------------------------------------------------
(* Hosts: the signals a detector can observe, per platform *)

MaxTpmDevices == 1

MaxVarLen == 5

MaxVolumes == 2

MaxMapper == 1

MaxCrypttab == 2

MaxBlockDevs == 1

\* a detector that reads nothing from the host
NoSig == [none |-> TRUE]

\* the first n tuples of a sequence of candidates, as the set of sequences
\* without repetition of length at most n
RECURSIVE SeqsUpTo(_, _)
SeqsUpTo(S, n) ==
    IF n = 0 THEN {<<>>}
    ELSE LET shorter == SeqsUpTo(S, n - 1)
         IN  shorter \cup
             {Append(q, x) : q \in {r \in shorter : Len(r) = n - 1}, x \in S}

TpmDeviceNames == [i \in 1..MaxTpmDevices |-> "tpm" \o ToString(i - 1)]

TPMAbsent_linux ==
    [readDirErr |-> FALSE, entries |-> <<>>, major |-> "", minor |-> "",
     vendor |-> "", devOk |-> FALSE]

TPMSigs_linux ==
    {TPMAbsent_linux, [TPMAbsent_linux EXCEPT !.readDirErr = TRUE]}
    \cup [readDirErr : {FALSE},
          entries : {SubSeq(TpmDeviceNames, 1, n) : n \in 1..MaxTpmDevices},
          major : {"", "1", "2"}, minor : {"", "0"},
          vendor : {"", "0x15d1"}, devOk : BOOLEAN]

SpecVersions ==
    {<<>>, <<"1", ".", "2">>, <<"2", ".", "0">>,
     <<"1", ".", "2", ",", " ", "2", ",", " ", "3">>,
     <<"2", ".", "0", ",", " ", "0", ",", " ", "1", ".", "3", "8">>}

Win32TpmRows ==
    [IsEnabled : BOOLEAN, IsActivated : BOOLEAN, SpecVersion : SpecVersions,
     ManufacturerIdTxt : {"", "IFX"}, ManufacturerId : {1229346816}]

TPMSigs_windows ==
    {[queryErr |-> TRUE, tpmInfo |-> <<>>], [queryErr |-> FALSE, tpmInfo |-> <<>>]}
    \cup {[queryErr |-> FALSE, tpmInfo |-> <<r>>] : r \in Win32TpmRows}

\* CFError codes: none, errSecUnimplemented, errSecAuthFailed, errSecParam
TPMSigs_darwin ==
    {[arm64 |-> TRUE, accessNull |-> FALSE, key |-> FALSE, errCode |-> 0]}
    \cup {[arm64 |-> FALSE, accessNull |-> TRUE, key |-> FALSE, errCode |-> 0]}
    \cup {[arm64 |-> FALSE, accessNull |-> FALSE, key |-> TRUE, errCode |-> 0]}
    \cup [arm64 : {FALSE}, accessNull : {FALSE}, key : {FALSE},
          errCode : {0, ErrSecUnimplemented, 0 - 25293, 0 - 50}]

\* EFI variable contents: a 4-byte attribute header and the value bytes, and
\* every truncation of them
EfiHeaders == {<<7, 0, 0, 0>>, <<1, 1, 1, 1>>}

EfiBytes == {0, 1, 2}

EfiVarContents ==
    {SubSeq(h \o v, 1, n) : h \in EfiHeaders,
                            v \in {q \in SeqsUpTo(EfiBytes, MaxVarLen - 4) :
                                       Len(q) = MaxVarLen - 4},
                            n \in 0..MaxVarLen}

BootLegacy_linux ==
    [efiStat |-> "notexist", sbErr |-> TRUE, sbData |-> <<>>,
     efivarsOk |-> FALSE, setupErr |-> TRUE, setupData |-> <<>>]

BootSigs_linux ==
    {BootLegacy_linux}
    \cup [efiStat : {"ok", "other"}, sbErr : {TRUE}, sbData : {<<>>},
          efivarsOk : BOOLEAN, setupErr : {TRUE}, setupData : {<<>>}]
    \cup [efiStat : {"ok", "other"}, sbErr : {FALSE}, sbData : EfiVarContents,
          efivarsOk : {TRUE}, setupErr : {TRUE}, setupData : {<<>>}]
    \cup [efiStat : {"ok", "other"}, sbErr : {FALSE}, sbData : EfiVarContents,
          efivarsOk : {TRUE}, setupErr : {FALSE}, setupData : EfiVarContents]

\* the variable `nvram` is asked for, which it echoes before the value
NvramName ==
    <<"9", "4", "b", "7", "3", "5", "5", "6", "-", "2", "1", "9", "7",
      "-", "4", "7", "0", "2", "-", "8", "2", "a", "8", "-", "3", "e",
      "1", "3", "3", "7", "d", "a", "f", "b", "f", "b", ":", "A", "p",
      "p", "l", "e", "S", "e", "c", "u", "r", "e", "B", "o", "o", "t",
      "P", "o", "l", "i", "c", "y">>

NvramOutputs ==
    {NvramName \o <<"\t">> \o v :
        v \in {<<"%", "0", "2">>, <<"%", "0", "1">>, <<"%", "0", "0">>}}

BootDefault_darwin ==
    [sysctlErr |-> FALSE, sysctlOut |-> "0", bputilErr |-> TRUE, bputil |-> {},
     nvramErr |-> TRUE, nvram |-> <<>>, profilerErr |-> TRUE,
     profilerT2 |-> FALSE]

BootSigs_darwin ==
    {[BootDefault_darwin EXCEPT !.sysctlOut = "1"]}
    \cup {[BootDefault_darwin EXCEPT !.sysctlOut = "1", !.bputilErr = FALSE,
                                     !.bputil = ph] :
            ph \in {{}, {"Full Security"}, {"Reduced Security"},
                    {"Permissive Security"}}}
    \cup {[BootDefault_darwin EXCEPT !.sysctlErr = e, !.nvramErr = FALSE,
                                     !.nvram = out] :
            e \in BOOLEAN, out \in NvramOutputs}
    \cup {[BootDefault_darwin EXCEPT !.sysctlErr = e, !.profilerErr = pe,
                                     !.profilerT2 = t2] :
            e \in BOOLEAN, pe \in BOOLEAN, t2 \in BOOLEAN}

\* Windows, Secure Boot: what a detector may return
BootSigs_windows ==
    {[out |-> Fail("failed to query Secure Boot status")]}
    \cup {[out |-> Ok([Enabled |-> en, Platform |-> "windows", Mode |-> md,
                       PolicyVersion |-> "",
                       SecureBootType |-> "uefi_secure_boot", Details |-> ""])] :
            en \in BOOLEAN, md \in {"enabled", "disabled", "unknown"}}

\* fdesetup status: the probed phrases in the output, and the output
FdeOutputs ==
    {[fde |-> {}, fdeText |-> "fdesetup: device does not support FileVault"],
     [fde |-> {"FileVault is On"}, fdeText |-> "FileVault is On."],
     [fde |-> {"FileVault is Off"}, fdeText |-> "FileVault is Off."],
     [fde |-> {"FileVault is On", "Encryption in progress"},
      fdeText |-> "FileVault is On. Encryption in progress: Percent completed = 42"],
     [fde |-> {"FileVault is On", "Decryption in progress"},
      fdeText |-> "FileVault is On. Decryption in progress: Percent completed = 42"],
     [fde |-> {"FileVault is Off", "Decryption in progress"},
      fdeText |-> "FileVault is Off. Decryption in progress: Percent completed = 42"]}

\* diskutil info /: the probed phrases in the output ("Yes (Unlocked)"
\* contains "Yes")
InfoOutputs ==
    {{}, {"FileVault:"}, {"FileVault:", "Yes"}, {"Encrypted:"},
     {"Encrypted:", "Yes"}, {"FileVault:", "Yes", "Yes (Unlocked)"},
     {"Yes"}}

EncDefault_darwin ==
    [fdeErr |-> TRUE, fde |-> {}, fdeText |-> "", apfsErr |-> TRUE,
     apfs |-> {}, infoErr |-> TRUE, info |-> {}, volName |-> ""]

EncSigs_darwin ==
    {EncDefault_darwin}
    \cup {[EncDefault_darwin EXCEPT !.fdeErr = FALSE, !.fde = f.fde,
                                    !.fdeText = f.fdeText, !.apfsErr = ae,
                                    !.apfs = ap] :
            f \in FdeOutputs, ae \in BOOLEAN,
            ap \in {{}, {"Encryption"}, {"FileVault"}}}
    \cup {[EncDefault_darwin EXCEPT !.fdeErr = FALSE, !.fde = f.fde,
                                    !.fdeText = f.fdeText, !.apfsErr = ae,
                                    !.apfs = IF ae THEN {} ELSE {"Encryption"},
                                    !.infoErr = FALSE, !.info = inf,
                                    !.volName = vn] :
            f \in FdeOutputs, ae \in BOOLEAN, inf \in InfoOutputs,
            vn \in {"", "Macintosh HD"}}

\* Win32_EncryptableVolume rows; the i-th row is drive DriveLetters[i]
DriveLetters == [i \in 1..MaxVolumes |-> "Drive" \o ToString(i) \o ":"]

BitLockerStates ==
    [ProtectionStatus : {1}, ConversionStatus : 0..5]
    \cup [ProtectionStatus : {0, 2}, ConversionStatus : {0}]

EncSigs_windows ==
    {[queryErr |-> TRUE, volumes |-> <<>>]}
    \cup {[queryErr |-> FALSE,
           volumes |-> [i \in 1..Len(q) |->
                           [DriveLetter |-> DriveLetters[i],
                            ProtectionStatus |-> q[i].ProtectionStatus,
                            ConversionStatus |-> q[i].ConversionStatus]]] :
            q \in SeqsUpTo(BitLockerStates, MaxVolumes)}

\* every subsequence of at most n elements of a sequence
RECURSIVE SubSeqsUpTo(_, _)
SubSeqsUpTo(list, n) ==
    IF list = <<>> \/ n = 0 THEN {<<>>}
    ELSE SubSeqsUpTo(Tail(list), n)
         \cup {<<Head(list)>> \o q : q \in SubSeqsUpTo(Tail(list), n - 1)}

\* every way to pick one variant for each element of a sequence of sets
RECURSIVE Variants(_)
Variants(sets) ==
    IF sets = <<>> THEN {<<>>}
    ELSE {<<x>> \o q : x \in Head(sets), q \in Variants(Tail(sets))}

RootName == <<"r", "o", "o", "t">>

Sdb1CryptName == <<"s", "d", "b", "1", "_", "c">>

DevPrefix == <<"/", "d", "e", "v", "/">>

\* /dev/mapper, in directory order: for each name the ways it can look
MapperCandidates ==
    << {[name |-> ControlName, crypt |-> FALSE, findmntErr |-> TRUE, mount |-> ""]},
       {[name |-> RootName, crypt |-> FALSE, findmntErr |-> TRUE, mount |-> ""],
        [name |-> RootName, crypt |-> TRUE, findmntErr |-> TRUE, mount |-> ""],
        [name |-> RootName, crypt |-> TRUE, findmntErr |-> FALSE, mount |-> "/"]},
       {[name |-> Sdb1CryptName, crypt |-> FALSE, findmntErr |-> TRUE, mount |-> ""],
        [name |-> Sdb1CryptName, crypt |-> TRUE, findmntErr |-> FALSE, mount |-> "/data"]} >>

MapperListings ==
    UNION {Variants(q) : q \in SubSeqsUpTo(MapperCandidates, MaxMapper)}

\* lines of /etc/crypttab as tuples of fields
CrypttabLines ==
    {<<>>, << <<"#">>, RootName >>, << RootName >>,
     << RootName, DevPrefix \o <<"s", "d", "a", "2">> >>,
     << Sdb1CryptName, DevPrefix \o <<"s", "d", "b", "1">>, <<"n", "o", "n", "e">> >>}

\* /dev/sd* then /dev/nvme*, in glob order
BlockDevCandidates ==
    << {[dev |-> DevPrefix \o <<"s", "d", "a", "1", "0">>, isLuks |-> TRUE]},
       {[dev |-> DevPrefix \o <<"s", "d", "a", "2">>, isLuks |-> TRUE]},
       {[dev |-> DevPrefix \o <<"s", "d", "b">>, isLuks |-> l] : l \in BOOLEAN},
       {[dev |-> DevPrefix \o <<"s", "d", "b", "1">>, isLuks |-> l] : l \in BOOLEAN},
       {[dev |-> DevPrefix \o <<"n", "v", "m", "e", "0", "n", "1">>, isLuks |-> TRUE]} >>

BlockDevListings ==
    UNION {Variants(q) : q \in SubSeqsUpTo(BlockDevCandidates, MaxBlockDevs)}

EncDefault_linux ==
    [mapperErr |-> TRUE, mapper |-> <<>>, crypttabErr |-> TRUE,
     crypttab |-> <<>>, blockDevs |-> <<>>]

\* /dev/mapper unreadable with any block devices, or the three sources
\* together: any two of them in full, the third with at most one crypttab line
EncSigs_linux ==
    {[EncDefault_linux EXCEPT !.crypttabErr = ce, !.crypttab = ct,
                              !.blockDevs = bd] :
        ce \in {TRUE}, ct \in {<<>>}, bd \in BlockDevListings}
    \cup {s \in {[mapperErr |-> FALSE, mapper |-> mp, crypttabErr |-> FALSE,
                   crypttab |-> ct, blockDevs |-> bd] :
                     mp \in MapperListings,
                     ct \in SeqsUpTo(CrypttabLines, MaxCrypttab),
                     bd \in BlockDevListings} :
              \/ s.mapper = <<>> \/ s.blockDevs = <<>> \/ Len(s.crypttab) <= 1}

BioSigs_linux ==
    {[fprintd |-> f.a, fprintdErr |-> f.e, fprintdHas |-> f.h,
      howdy |-> w.a, howdyErr |-> w.e, howdyNone |-> w.h] :
        f \in {[a |-> FALSE, e |-> TRUE, h |-> FALSE],
               [a |-> TRUE, e |-> TRUE, h |-> FALSE],
               [a |-> TRUE, e |-> FALSE, h |-> FALSE],
               [a |-> TRUE, e |-> FALSE, h |-> TRUE]},
        w \in {[a |-> FALSE, e |-> TRUE, h |-> FALSE],
               [a |-> TRUE, e |-> TRUE, h |-> FALSE],
               [a |-> TRUE, e |-> FALSE, h |-> FALSE],
               [a |-> TRUE, e |-> FALSE, h |-> TRUE]}}

BioSigs_windows == [winbio : BOOLEAN]

BioSigs_darwin ==
    [canEvaluate : {TRUE}, biometryType : {0, 1, 2}, hasError : {FALSE},
     notEnrolled : {FALSE}]
    \cup [canEvaluate : {FALSE}, biometryType : {0, 1, 2}, hasError : {FALSE},
          notEnrolled : {FALSE}]
    \cup [canEvaluate : {FALSE}, biometryType : {0, 1, 2}, hasError : {TRUE},
          notEnrolled : BOOLEAN]

BioSigs_other == {NoSig}

----------------------------------------------------------------------------
(* Hosts *)

Platforms == {"linux", "windows", "darwin", "freebsd"}

TPMSigs(os) ==
    CASE os = "linux"   -> TPMSigs_linux
      [] os = "windows" -> TPMSigs_windows
      [] os = "darwin"  -> TPMSigs_darwin
      [] OTHER          -> {NoSig}

BootSigs(os) ==
    CASE os = "linux"   -> BootSigs_linux
      [] os = "windows" -> BootSigs_windows
      [] os = "darwin"  -> BootSigs_darwin
      [] OTHER          -> {NoSig}

EncSigs(os) ==
    CASE os = "linux"   -> EncSigs_linux
      [] os = "windows" -> EncSigs_windows
      [] os = "darwin"  -> EncSigs_darwin
      [] OTHER          -> {NoSig}

BioSigs(os) ==
    CASE os = "linux"   -> BioSigs_linux
      [] os = "windows" -> BioSigs_windows
      [] os = "darwin"  -> BioSigs_darwin
      [] OTHER          -> BioSigs_other

\* On macOS the chip detector and the boot detector read the same CPU flag.
Coherent(os, t, b) ==
    os = "darwin" /\ ~b.sysctlErr => (t.arm64 <=> b.sysctlOut = "1")

\* A few signals per category that between them produce every value the
\* aggregator distinguishes; hosts vary all four categories over these.
TPMFew(os) ==
    CASE os = "linux" ->
           {s \in TPMSigs_linux : ~s.readDirErr /\ s.minor = "" /\ s.vendor = ""
                                  /\ s.major \in {"", "2"}}
      [] os = "windows" ->
           {s \in TPMSigs_windows :
               ~s.queryErr /\ (s.tpmInfo /= <<>> =>
                   /\ s.tpmInfo[1].IsActivated
                   /\ s.tpmInfo[1].ManufacturerIdTxt = "IFX"
                   /\ Len(s.tpmInfo[1].SpecVersion) = 3)}
      [] os = "darwin" ->
           {s \in TPMSigs_darwin : s.errCode \in {0, ErrSecUnimplemented}}
      [] OTHER -> {NoSig}

BootFew(os) ==
    CASE os = "linux" ->
           {s \in BootSigs_linux :
               /\ s.efiStat /= "other" /\ s.setupErr
               /\ (~s.sbErr => Len(s.sbData) = 5 /\ s.sbData[1] = 7
                               /\ s.sbData[5] \in {0, 1})}
      [] os = "windows" -> BootSigs_windows
      [] os = "darwin" -> {s \in BootSigs_darwin : ~s.sysctlErr}
      [] OTHER -> {NoSig}

EncFew(os) ==
    CASE os = "linux" ->
           {s \in EncSigs_linux :
               /\ ~s.mapperErr /\ s.crypttab = <<>> /\ s.blockDevs = <<>>
               /\ \A i \in 1..Len(s.mapper) :
                      s.mapper[i].name = RootName /\ ~s.mapper[i].findmntErr}
      [] os = "windows" ->
           {s \in EncSigs_windows :
               /\ Len(s.volumes) <= 1
               /\ \A i \in 1..Len(s.volumes) :
                      s.volumes[i].ConversionStatus \in {0, 1}
                      /\ s.volumes[i].ProtectionStatus \in {0, 1}}
      [] os = "darwin" ->
           {s \in EncSigs_darwin :
               s.apfsErr /\ s.infoErr /\ s.apfs = {} /\ Cardinality(s.fde) <= 1}
      [] OTHER -> {NoSig}

\* hosts that vary all four categories together
HostsFew(os) ==
    {h \in TPMFew(os) \X BootFew(os) \X EncFew(os) \X BioSigs(os) :
        Coherent(os, h[1], h[2])}

Hosts(os) ==
    HostsFew(os)
    \cup UNION {
        {h \in TPMSigs(os) \X {b} \X {e} \X {m} : Coherent(os, h[1], h[2])}
        \cup {h \in {t} \X BootSigs(os) \X {e} \X {m} : Coherent(os, h[1], h[2])}
        \cup ({t} \X {b} \X EncSigs(os) \X {m})
        : t \in {x \in TPMFew(os) :
                    /\ os = "linux" => x.entries = <<>>
                    /\ os = "windows" => x.tpmInfo = <<>>
                    /\ os = "darwin" => \/ x.arm64
                                        \/ tpm_testSecureEnclaveAvailable(x) = 1},
          b \in {x \in BootFew(os) :
                    /\ os = "linux" => x.efiStat = "notexist"
                    /\ os = "windows" => x.out.err /= Null
                    /\ os = "darwin" => x.bputil = {} /\ x.nvramErr
                                        /\ x.profilerErr},
          e \in {x \in EncFew(os) :
                    /\ os = "linux" => x.mapper = <<>>
                    /\ os = "windows" => x.queryErr
                    /\ os = "darwin" => x.fdeErr},
          m \in {x \in BioSigs(os) :
                    /\ os = "linux" => ~x.fprintd /\ ~x.howdy
                    /\ os = "windows" => ~x.winbio
                    /\ os = "darwin" => ~x.canEvaluate /\ ~x.hasError
                                        /\ x.biometryType = 0} }

Init ==
    /\ goos \in Platforms
    /\ \E h \in Hosts(goos) :
          /\ tpmSig = h[1]
          /\ bootSig = h[2]
          /\ encSig = h[3]
          /\ bioSig = h[4]
    /\ ret = NotCalled

----------------------------------------------------------------------------
(* Calls *)

CallGetTPMStatus ==
    /\ ret' = [fn |-> "GetTPMStatus", out |-> GetTPMStatus(goos, tpmSig)]
    /\ UNCHANGED sigs

CallGetSecureBootStatus ==
    /\ ret' = [fn |-> "GetSecureBootStatus",
               out |-> GetSecureBootStatus(goos, bootSig)]
    /\ UNCHANGED sigs

CallGetEncryptionStatus ==
    /\ ret' = [fn |-> "GetEncryptionStatus",
               out |-> GetEncryptionStatus(goos, encSig)]
    /\ UNCHANGED sigs

CallGetBiometricCapabilities ==
    /\ ret' = [fn |-> "GetBiometricCapabilities",
               out |-> GetBiometricCapabilities(goos, bioSig)]
    /\ UNCHANGED sigs

\* Faulty variant of CallGetSecuritySummary: `recommendations` is a package
\* variable that is never reset, so a second invocation appends to the
\* texts of the first.
CallGetSecuritySummary_keepsRecommendations ==
    LET o == GetSecuritySummary(goos, tpmSig, bootSig, encSig, bioSig)
        kept == IF ret.fn = "GetSecuritySummary"
                THEN Deref(ret.out.val).Recommendations ELSE <<>>
    IN  /\ ret' = [fn |-> "GetSecuritySummary",
                   out |-> Ok([Deref(o.val) EXCEPT !.Recommendations = kept \o @]),
                   queried |-> QueriedBy(goos, tpmSig, bootSig, encSig, bioSig)]
        /\ UNCHANGED sigs

CallGetSecuritySummary ==
    /\ ret' = [fn |-> "GetSecuritySummary",
               out |-> GetSecuritySummary(goos, tpmSig, bootSig, encSig, bioSig),
               queried |-> QueriedBy(goos, tpmSig, bootSig, encSig, bioSig)]
    /\ UNCHANGED sigs

Next ==
    \/ CallGetTPMStatus
    \/ CallGetSecureBootStatus
    \/ CallGetEncryptionStatus
    \/ CallGetBiometricCapabilities
    \/ CallGetSecuritySummary

Spec == Init /\ [][Next]_vars

----------------------------------------------------------------------------
(* Properties of GetSecuritySummary *)

SummaryReturned == ret.fn = "GetSecuritySummary"

Summary == Deref(ret.out.val)

\* the gate of a category on this build
Gate(k) ==
    CASE k = "tpm"         -> IsTPMSupported(goos)
      [] k = "secure_boot" -> IsSecureBootSupported(goos)
      [] k = "encryption"  -> IsEncryptionSupported(goos)
      [] k = "biometrics"  -> IsBiometricsSupported(goos)

\* what the detector of a category returns on this host
Outcome(k) ==
    CASE k = "tpm"         -> GetTPMStatus(goos, tpmSig)
      [] k = "secure_boot" -> GetSecureBootStatus(goos, bootSig)
      [] k = "encryption"  -> GetEncryptionStatus(goos, encSig)
      [] k = "biometrics"  -> GetBiometricCapabilities(goos, bioSig)

Answered(k) == Gate(k) /\ Outcome(k).err = Null

\* the "fully enabled" predicate of a category's status record
Enabledness(k, r) ==
    CASE k = "tpm"         -> r.Present /\ r.Enabled
      [] k = "secure_boot" -> r.Enabled
      [] k = "encryption"  -> r.Enabled
      [] k = "biometrics"  -> r.TouchIDEnrolled \/ r.FaceIDEnrolled

FullyEnabled(k) == Answered(k) /\ Enabledness(k, Deref(Outcome(k).val))

Blocks == CategoryBlocks(goos, tpmSig, bootSig, encSig, bioSig)

Field(k) ==
    CASE k = "tpm"         -> Summary.TPM
      [] k = "secure_boot" -> Summary.SecureBoot
      [] k = "encryption"  -> Summary.Encryption
      [] k = "biometrics"  -> Summary.Biometrics

\* C1: whatever the gates and the detectors return, the score of the
\* returned summary is one of 0, 25, 50, 75, 100 and is 25 times the number
\* of categories whose block added points.
C1_ScoreIsSumOfContributions ==
    SummaryReturned =>
        /\ Summary.OverallScore \in {0, 25, 50, 75, 100}
        /\ \A k \in Categories : Blocks[k].points \in {0, 25}
        /\ Summary.OverallScore =
               25 * Cardinality({k \in Categories : Blocks[k].points = 25})

C1_Witness ==
    /\ SummaryReturned
    /\ Summary.OverallScore = 50
    /\ Blocks.tpm.points = 25
    /\ Blocks.biometrics.points = 25

\* C2: a category adds 25 points exactly when it is supported, its detector
\* returned no error and its record is fully enabled (chip present and
\* enabled, boot enabled, encryption enabled, a modality enrolled); in every
\* other case, presence without enablement included, it adds 0.
C2_PointsIffFullyEnabled ==
    SummaryReturned =>
        /\ \A k \in Categories :
              Blocks[k].points = IF FullyEnabled(k) THEN 25 ELSE 0
        /\ Summary.OverallScore =
               25 * Cardinality({k \in Categories : FullyEnabled(k)})

\* a chip that is present but not enabled, and a modality that is available
\* but not enrolled, next to an enabled Secure Boot
C2_Witness ==
    /\ SummaryReturned
    /\ Answered("tpm") /\ Deref(Outcome("tpm").val).Present
    /\ ~Deref(Outcome("tpm").val).Enabled
    /\ Answered("biometrics") /\ Deref(Outcome("biometrics").val).TouchIDAvailable
    /\ ~FullyEnabled("biometrics")
    /\ FullyEnabled("secure_boot")
    /\ Summary.OverallScore = 25

StatusRank(st) ==
    CASE st = "critical"          -> 0
      [] st = "needs_improvement" -> 1
      [] st = "fair"              -> 2
      [] st = "good"              -> 3
      [] st = "excellent"         -> 4

ScoreRange == 0..125

\* C3: the status of the returned summary follows the descending threshold
\* table, and over all scores the status never gets worse as the score grows
\* (each score's status ranks no higher than the next score's).
C3_StatusThresholds ==
    /\ SummaryReturned =>
          Summary.OverallStatus =
              CASE Summary.OverallScore = 100 -> "excellent"
                [] Summary.OverallScore = 75  -> "good"
                [] Summary.OverallScore = 50  -> "fair"
                [] Summary.OverallScore = 25  -> "needs_improvement"
                [] Summary.OverallScore = 0   -> "critical"
    /\ \A a \in ScoreRange : (a + 1) \in ScoreRange =>
          StatusRank(OverallStatus(a)) <= StatusRank(OverallStatus(a + 1))
    /\ \A a \in ScoreRange :
          OverallStatus(a) = CASE a >= 100 -> "excellent"
                               [] a >= 75 /\ a < 100 -> "good"
                               [] a >= 50 /\ a < 75  -> "fair"
                               [] a >= 25 /\ a < 50  -> "needs_improvement"
                               [] a < 25             -> "critical"

C3_Witness ==
    /\ SummaryReturned
    /\ Summary.OverallScore = 100
    /\ Summary.OverallStatus = "excellent"

\* the categories whose detector answered but which are not fully enabled
NotFullyEnabled == {k \in Categories : Answered(k) /\ ~FullyEnabled(k)}

\* C4: the summary carries one recommendation for every category that is
\* supported, answered without error and is not fully enabled (a chip that
\* is present but not enabled and biometrics without any modality included);
\* with nothing enabled the score is 0 and the status critical.
C4_OneRecommendationPerGap ==
    SummaryReturned =>
        /\ Len(Summary.Recommendations) = Cardinality(NotFullyEnabled)
        /\ (\A k \in Categories : ~FullyEnabled(k)) =>
               Summary.OverallScore = 0 /\ Summary.OverallStatus = "critical"

\* C5: chip present and enabled, Secure Boot enabled, encryption disabled and
\* a modality enrolled give score 75, status good and the single
\* recommendation to enable FileVault (darwin), BitLocker (windows) or LUKS
\* (linux).
ScenarioA ==
    /\ FullyEnabled("tpm")
    /\ FullyEnabled("secure_boot")
    /\ Answered("encryption") /\ ~FullyEnabled("encryption")
    /\ FullyEnabled("biometrics")

C5_ScenarioA ==
    SummaryReturned /\ ScenarioA /\ goos \in {"darwin", "windows", "linux"} =>
        /\ Summary.OverallScore = 75
        /\ Summary.OverallStatus = "good"
        /\ Summary.Recommendations =
               << CASE goos = "darwin"  -> "Enable FileVault to protect data at rest"
                    [] goos = "windows" -> "Enable BitLocker to protect data at rest"
                    [] goos = "linux"   -> "Enable LUKS to protect data at rest" >>

C5_Witness ==
    /\ SummaryReturned /\ ScenarioA /\ goos = "linux"
    /\ Summary.Recommendations = <<"Enable LUKS to protect data at rest">>

\* the summary GetSecuritySummary builds from the category blocks c
SummaryFrom(c) ==
    [Platform |-> goos,
     OverallScore |-> c.tpm.points + c.secure_boot.points
                      + c.encryption.points + c.biometrics.points,
     OverallStatus |-> OverallStatus(c.tpm.points + c.secure_boot.points
                                     + c.encryption.points + c.biometrics.points),
     TPM |-> c.tpm.field, SecureBoot |-> c.secure_boot.field,
     Encryption |-> c.encryption.field, Biometrics |-> c.biometrics.field,
     Recommendations |-> c.tpm.recs \o c.secure_boot.recs
                         \o c.encryption.recs \o c.biometrics.recs]

Failed(k) == Gate(k) /\ Outcome(k).err /= Null

\* C6: when a detector returns an error, GetSecuritySummary still returns a
\* summary and a nil error; the category's field is null, and score, status,
\* sub-summaries and recommendations are those of the other categories
\* alone, as if the failing category had been skipped.
C6_DetectorErrorIsSkipped ==
    SummaryReturned =>
        \A k \in Categories :
            Failed(k) =>
                /\ ret.out.err = Null
                /\ ret.out.val /= Null
                /\ Field(k) = Null
                /\ Summary = SummaryFrom([Blocks EXCEPT ![k] = Skipped])
                /\ Summary.OverallScore =
                       25 * Cardinality({j \in Categories \ {k} : FullyEnabled(j)})

C6_Witness ==
    /\ SummaryReturned
    /\ Failed("secure_boot")
    /\ Summary.SecureBoot = Null
    /\ Summary.OverallScore = 50
    /\ Summary.TPM /= Null /\ Summary.Encryption /= Null

\* C7: a category whose gate returns false is not queried, adds no points
\* and no recommendation and leaves its field null, and the score stays one
\* of 0..100.
C7_UnsupportedIsNeverQueried ==
    SummaryReturned =>
        \A k \in Categories :
            ~Gate(k) =>
                /\ k \notin ret.queried
                /\ Field(k) = Null
                /\ Summary = SummaryFrom([Blocks EXCEPT ![k] = Skipped])
                /\ Summary.OverallScore \in {0, 25, 50, 75, 100}

C7_Witness ==
    /\ SummaryReturned
    /\ ~Gate("biometrics") /\ ~Gate("tpm")
    /\ ret.queried = {}
    /\ Summary.Biometrics = Null

----------------------------------------------------------------------------
(* Properties of the detectors *)

Returned(fn) == ret.fn = fn

Result == Deref(ret.out.val)

\* C8: a TPMResult with present=false has enabled=false, no capabilities and
\* hardware_key_support=false, on Linux, Windows and macOS.
C8_AbsentChipHasNothing ==
    Returned("GetTPMStatus") /\ goos \in {"linux", "windows", "darwin"} =>
        /\ ret.out.err = Null
        /\ ~Result.Present =>
               /\ ~Result.Enabled
               /\ Result.Capabilities = <<>>
               /\ ~Result.HardwareKeySupport

\* C9: in an EncryptionResult, enabled holds exactly when some entry of
\* encrypted_volumes has encrypted=true, on macOS, Windows and Linux.
SomeVolumeEncrypted(r) ==
    \E i \in 1..Len(r.EncryptedVolumes) : r.EncryptedVolumes[i].Encrypted

C9_EnabledIffSomeVolumeEncrypted ==
    Returned("GetEncryptionStatus") /\ goos \in {"linux", "windows", "darwin"} =>
        /\ ret.out.err = Null
        /\ Result.Enabled <=> SomeVolumeEncrypted(Result)

\* C10: on Linux, with a readable SecureBoot variable of at least 5 bytes,
\* enabled is true exactly when the byte at offset 4 is 1; and no content of
\* the variable makes GetSecureBootStatus return an error.
C10_SecureBootByte ==
    Returned("GetSecureBootStatus") /\ goos = "linux" =>
        /\ ret.out.err = Null
        /\ ret.out.val /= Null
        /\ (~bootSig.sbErr /\ Len(bootSig.sbData) >= 5) =>
               (Result.Enabled <=> bootSig.sbData[5] = 1)

C10_Witness ==
    /\ Returned("GetSecureBootStatus") /\ goos = "linux"
    /\ ~bootSig.sbErr /\ Len(bootSig.sbData) >= 5
    /\ bootSig.sbData[5] = 1 /\ bootSig.sbData[1] /= 1
    /\ Result.Enabled

\* the same host with the SetupMode variable missing
WithoutSetupMode(s) == [s EXCEPT !.setupErr = TRUE, !.setupData = <<>>]

\* C11: on Linux, for a SecureBoot variable that was read (whatever its
\* content), the result is the one obtained with the SetupMode variable
\* missing, except that details carries the setup-mode suffix exactly when
\* SetupMode has at least 5 bytes and its byte at offset 4 is 1; enabled and
\* mode are never changed by SetupMode.
C11_SetupModeOnlyTouchesDetails ==
    (/\ Returned("GetSecureBootStatus") /\ goos = "linux"
     /\ bootSig.efiStat /= "notexist" /\ ~bootSig.sbErr) =>
        LET base == Deref(GetSecureBootStatus_linux(WithoutSetupMode(bootSig)).val)
            active == /\ ~bootSig.setupErr
                      /\ Len(bootSig.setupData) >= 5
                      /\ bootSig.setupData[5] = 1
        IN  /\ ret.out.err = Null
            /\ Result.Enabled = base.Enabled
            /\ Result.Mode = base.Mode
            /\ Result = [base EXCEPT !.Details =
                            IF active THEN @ \o SetupModeSuffix ELSE @]

\* Secure Boot enabled, SetupMode read with value byte 1 and a header that
\* does not start with 1
C11_Witness ==
    /\ Returned("GetSecureBootStatus") /\ goos = "linux"
    /\ ~bootSig.sbErr /\ Len(bootSig.sbData) >= 5 /\ bootSig.sbData[5] = 1
    /\ ~bootSig.setupErr /\ Len(bootSig.setupData) >= 5
    /\ bootSig.setupData[5] = 1 /\ bootSig.setupData[1] /= 1
    /\ Result.Enabled /\ Result.Mode = "enabled"
    /\ Result.Details = "UEFI Secure Boot is enabled" \o SetupModeSuffix

\* the biometry type the four booleans call for: both, fingerprint only,
\* face only, none
BiometryTypeOf(r) ==
    LET finger == r.TouchIDAvailable \/ r.TouchIDEnrolled
        face == r.FaceIDAvailable \/ r.FaceIDEnrolled
    IN  CASE finger /\ face -> "fingerprint_and_face"
          [] finger /\ ~face -> "fingerprint"
          [] ~finger /\ face -> "face"
          [] OTHER -> "none"

\* C12: on Linux, Windows and macOS the biometry_type of the returned
\* record is the value the four availability/enrollment booleans determine
\* (both > fingerprint only > face only > none), one of none, fingerprint,
\* face, fingerprint_and_face, and never disagrees with the booleans.
C12_BiometryTypeFromBooleans ==
    Returned("GetBiometricCapabilities")
        /\ goos \in {"linux", "windows", "darwin"} =>
            /\ ret.out.err = Null
            /\ Result.BiometryType \in
                   {"none", "fingerprint", "face", "fingerprint_and_face"}
            /\ Result.BiometryType = BiometryTypeOf(Result)

\* C13: on Linux and Windows the capabilities of the returned TPMResult are
\* decided by present, enabled and the version class alone: none when the
\* chip is absent or not enabled, the four base capabilities when enabled
\* with a 1.2-class chip, and those four followed by enhanced_authorization
\* and algorithm_agility when enabled with a 2.0-class chip.
C13_CapabilitiesFromVersionClass ==
    Returned("GetTPMStatus") /\ goos \in {"linux", "windows"} =>
        /\ ret.out.err = Null
        /\ Result.Type \in {"none", "tpm_1.2", "tpm_2.0"}
        /\ Result.Capabilities =
               IF ~Result.Present \/ ~Result.Enabled THEN <<>>
               ELSE IF Result.Type = "tpm_1.2"
               THEN <<"hardware_key_generation", "hardware_key_storage",
                      "platform_integrity", "secure_boot_support">>
               ELSE <<"hardware_key_generation", "hardware_key_storage",
                      "platform_integrity", "secure_boot_support",
                      "enhanced_authorization", "algorithm_agility">>
        /\ Result.Present /\ Result.Enabled => Result.Type /= "none"

\* an enabled 2.0 chip on Windows, whose SpecVersion lists several versions
C13_Witness ==
    /\ Returned("GetTPMStatus") /\ goos = "windows"
    /\ Result.Present /\ Result.Enabled /\ Result.Type = "tpm_2.0"
    /\ Len(tpmSig.tpmInfo[1].SpecVersion) > 3
    /\ Len(Result.Capabilities) = 6

\* the OS tool or API call behind the call that returned could not be run
ToolFailed ==
    \/ Returned("GetTPMStatus") /\ goos = "windows" /\ tpmSig.queryErr
    \/ Returned("GetEncryptionStatus") /\ goos = "windows" /\ encSig.queryErr
    \/ Returned("GetEncryptionStatus") /\ goos = "darwin" /\ encSig.fdeErr

\* C14: when the underlying tool or API call of a detector fails (the WMI
\* query for Win32_Tpm or Win32_EncryptableVolume errors, fdesetup cannot be
\* executed), the detector returns an error with a cause and no status
\* record.
C14_ToolFailureIsAnError ==
    ToolFailed =>
        /\ ret.out.err /= Null
        /\ ret.out.val = Null

\* the call that returned could not read its signal (no privilege) or could
\* not parse what it read
SignalRefused ==
    \/ /\ Returned("GetSecureBootStatus") /\ goos = "linux"
       /\ bootSig.efiStat /= "notexist"
       /\ (bootSig.sbErr \/ Len(bootSig.sbData) < 5)
    \/ /\ Returned("GetEncryptionStatus") /\ goos = "windows"
       /\ encSig.queryErr
    \/ /\ Returned("GetEncryptionStatus") /\ goos = "darwin"
       /\ encSig.fdeErr
    \/ /\ Returned("GetSecureBootStatus") /\ goos = "darwin"
       /\ ~bootSig.sysctlErr /\ bootSig.sysctlOut = "1"
       /\ bootSig.bputilErr

SignalUnparsed ==
    \/ /\ Returned("GetSecureBootStatus") /\ goos = "darwin"
       /\ ~bootSig.sysctlErr /\ bootSig.sysctlOut = "1"
       /\ ~bootSig.bputilErr
       /\ bootSig.bputil \cap {"Full Security", "Reduced Security",
                               "Permissive Security"} = {}
    \/ /\ Returned("GetEncryptionStatus") /\ goos = "darwin"
       /\ ~encSig.fdeErr
       /\ encSig.fde \cap {"FileVault is On", "FileVault is Off"} = {}

UnknownClass == {"unknown", "assumed", "assumed_full"}

\* the status of an EncryptionResult, the mode of a SecureBootResult
StatusOrMode(r) ==
    IF ret.fn = "GetEncryptionStatus" THEN r.Status ELSE r.Mode

\* C15: a detector that cannot read its signal for lack of privilege, or
\* cannot parse it, returns a nil error and a record whose status (mode) is
\* an unknown-class value and whose details are a non-empty text.
C15_AmbiguityIsInTheRecord ==
    SignalRefused \/ SignalUnparsed =>
        /\ ret.out.err = Null
        /\ ret.out.val /= Null
        /\ StatusOrMode(Result) \in UnknownClass
        /\ Result.Details /= ""

\* the category a recommendation text belongs to, by its position in the
\* check order (0 for a text no category emits)
RecommendationRank(text) ==
    CASE text = "Hardware security module (TPM/Secure Enclave) not detected" -> 1
      [] text = "Enable Secure Boot for enhanced boot security" -> 2
      [] text \in {"Enable FileVault to protect data at rest",
                   "Enable BitLocker to protect data at rest",
                   "Enable LUKS to protect data at rest",
                   "Enable disk encryption to protect data at rest"} -> 3
      [] text = "Configure biometric authentication for enhanced security" -> 4
      [] OTHER -> 0

\* C16: the recommendations of a summary come in check order (chip, Secure
\* Boot, encryption, biometrics) and no category has more than one entry:
\* the categories of successive entries strictly increase.
C16_RecommendationsInCheckOrder ==
    SummaryReturned =>
        LET recs == Summary.Recommendations
        IN  /\ \A i \in 1..Len(recs) : RecommendationRank(recs[i]) \in 1..4
            /\ \A i \in 1..Len(recs) : i > 1 =>
                   RecommendationRank(recs[i - 1]) < RecommendationRank(recs[i])
            /\ Len(recs) <= 4

\* all four categories recommend something
C16_Witness ==
    /\ SummaryReturned
    /\ Len(Summary.Recommendations) = 4
    /\ RecommendationRank(Summary.Recommendations[1]) = 1
    /\ RecommendationRank(Summary.Recommendations[4]) = 4

----------------------------------------------------------------------------
(* The four detector queries run in any order, then the aggregation *)

\* a detector that has not returned yet
NotRun == [val |-> Null, err |-> Null]

InitConcurrent ==
    /\ goos \in Platforms
    /\ \E h \in HostsFew(goos) :
          /\ tpmSig = h[1]
          /\ bootSig = h[2]
          /\ encSig = h[3]
          /\ bioSig = h[4]
    /\ ret = [fn |-> "gather", got |-> [k \in Categories |-> NotRun],
              order |-> <<>>]

\* the category's detector has to run and has not run yet
Pending(k) == ret.fn = "gather" /\ Gate(k) /\ ret.got[k] = NotRun

\* Faulty variant of RunGetTPMStatus: the detectors share one result slot
\* for failures, and a chip query that finishes after the biometrics query
\* overwrites what that query returned.
RunGetTPMStatus_sharedSlot ==
    /\ Pending("tpm")
    /\ ret' = [ret EXCEPT !.got.tpm = GetTPMStatus(goos, tpmSig),
                          !.got.biometrics =
                              IF @ = NotRun THEN @ ELSE Fail("interrupted"),
                          !.order = Append(@, "tpm")]
    /\ UNCHANGED sigs

RunGetTPMStatus ==
    /\ Pending("tpm")
    /\ ret' = [ret EXCEPT !.got.tpm = GetTPMStatus(goos, tpmSig),
                          !.order = Append(@, "tpm")]
    /\ UNCHANGED sigs

RunGetSecureBootStatus ==
    /\ Pending("secure_boot")
    /\ ret' = [ret EXCEPT !.got.secure_boot = GetSecureBootStatus(goos, bootSig),
                          !.order = Append(@, "secure_boot")]
    /\ UNCHANGED sigs

RunGetEncryptionStatus ==
    /\ Pending("encryption")
    /\ ret' = [ret EXCEPT !.got.encryption = GetEncryptionStatus(goos, encSig),
                          !.order = Append(@, "encryption")]
    /\ UNCHANGED sigs

RunGetBiometricCapabilities ==
    /\ Pending("biometrics")
    /\ ret' = [ret EXCEPT !.got.biometrics =
                              GetBiometricCapabilities(goos, bioSig),
                          !.order = Append(@, "biometrics")]
    /\ UNCHANGED sigs

\* the category blocks of GetSecuritySummary over outcomes already at hand
BlocksOf(os, got) ==
    [tpm         |-> SummarizeTPM(IsTPMSupported(os), got.tpm),
     secure_boot |-> SummarizeSecureBoot(IsSecureBootSupported(os),
                                         got.secure_boot),
     encryption  |-> SummarizeEncryption(os, IsEncryptionSupported(os),
                                         got.encryption),
     biometrics  |-> SummarizeBiometrics(IsBiometricsSupported(os),
                                         got.biometrics)]

Aggregate ==
    /\ ret.fn = "gather"
    /\ \A k \in Categories : ~Pending(k)
    /\ ret' = [fn |-> "GetSecuritySummary",
               out |-> Ok(SummaryFrom(BlocksOf(goos, ret.got))),
               queried |-> {k \in Categories : ret.got[k] /= NotRun},
               order |-> ret.order]
    /\ UNCHANGED sigs

NextConcurrent ==
    \/ RunGetTPMStatus
    \/ RunGetSecureBootStatus
    \/ RunGetEncryptionStatus
    \/ RunGetBiometricCapabilities
    \/ Aggregate

SpecConcurrent == InitConcurrent /\ [][NextConcurrent]_vars

----------------------------------------------------------------------------
(* Dispatch: the CLI subcommands and the MCP server *)

\* ret.fn: the command or tool that ran last; ret.invoked: the detectors it
\* invoked; ret.exit, ret.stderr: how a CLI command ended; ret.server,
\* ret.tools: whether NewMCPServer has run and the tools it registered.
InitDispatch ==
    /\ goos \in Platforms
    /\ \E h \in HostsFew(goos) :
          /\ tpmSig = h[1]
          /\ bootSig = h[2]
          /\ encSig = h[3]
          /\ bioSig = h[4]
    /\ ret = [fn |-> "none", out |-> NotRun, invoked |-> {}, exit |-> 0,
              stderr |-> "", server |-> FALSE, tools |-> {}]

\* the body of a feature subcommand: gate, detector, error report
RunCmd(name, k, gate, o, unsupported) ==
    IF ~gate
    THEN [ret EXCEPT !.fn = name, !.out = NotRun, !.invoked = {},
                     !.exit = 1, !.stderr = unsupported]
    ELSE IF o.err /= Null
    THEN [ret EXCEPT !.fn = name, !.out = o, !.invoked = {k},
                     !.exit = 1, !.stderr = "Error: " \o o.err[1]]
    ELSE [ret EXCEPT !.fn = name, !.out = o, !.invoked = {k},
                     !.exit = 0, !.stderr = ""]

securityChipCmd ==
    /\ ret' = RunCmd("security-chip", "tpm", IsTPMSupported(goos),
                     GetTPMStatus(goos, tpmSig),
                     "Error: Platform security chip not supported on this platform")
    /\ UNCHANGED sigs

securebootCmd ==
    /\ ret' = RunCmd("secureboot", "secure_boot", IsSecureBootSupported(goos),
                     GetSecureBootStatus(goos, bootSig),
                     "Error: Secure Boot not supported on this platform")
    /\ UNCHANGED sigs

encryptionCmd ==
    /\ ret' = RunCmd("encryption", "encryption", IsEncryptionSupported(goos),
                     GetEncryptionStatus(goos, encSig),
                     "Error: Encryption status not supported on this platform")
    /\ UNCHANGED sigs

\* Faulty variant of biometricsCmd: the detector is called without asking
\* the gate.
biometricsCmd_ungated ==
    /\ ret' = RunCmd("biometrics", "biometrics", TRUE,
                     GetBiometricCapabilities(goos, bioSig),
                     "Error: Biometrics are only available on macOS")
    /\ UNCHANGED sigs

biometricsCmd ==
    /\ ret' = RunCmd("biometrics", "biometrics", IsBiometricsSupported(goos),
                     GetBiometricCapabilities(goos, bioSig),
                     "Error: Biometrics are only available on macOS")
    /\ UNCHANGED sigs

summaryCmd ==
    /\ ret' = [ret EXCEPT
                 !.fn = "summary",
                 !.out = GetSecuritySummary(goos, tpmSig, bootSig, encSig, bioSig),
                 !.invoked = QueriedBy(goos, tpmSig, bootSig, encSig, bioSig),
                 !.exit = 0, !.stderr = ""]
    /\ UNCHANGED sigs

\* the MCP tool of a category
ToolOf(k) ==
    CASE k = "tpm"         -> "get_platform_security_chip"
      [] k = "secure_boot" -> "get_secure_boot_status"
      [] k = "encryption"  -> "get_encryption_status"
      [] k = "biometrics"  -> "get_biometric_capabilities"

SummaryTool == "get_security_summary"

NewMCPServer ==
    /\ ~ret.server
    /\ ret' = [ret EXCEPT
                 !.fn = "NewMCPServer", !.out = NotRun, !.invoked = {},
                 !.exit = 0, !.stderr = "", !.server = TRUE,
                 !.tools =
                     (IF IsTPMSupported(goos) THEN {ToolOf("tpm")} ELSE {})
                     \cup (IF IsSecureBootSupported(goos)
                           THEN {ToolOf("secure_boot")} ELSE {})
                     \cup (IF IsEncryptionSupported(goos)
                           THEN {ToolOf("encryption")} ELSE {})
                     \cup (IF IsBiometricsSupported(goos)
                           THEN {ToolOf("biometrics")} ELSE {})
                     \cup {SummaryTool}]
    /\ UNCHANGED sigs

\* the handler registered for a feature tool: it calls the detector
HandleTool(k) ==
    CASE k = "tpm"         -> GetTPMStatus(goos, tpmSig)
      [] k = "secure_boot" -> GetSecureBootStatus(goos, bootSig)
      [] k = "encryption"  -> GetEncryptionStatus(goos, encSig)
      [] k = "biometrics"  -> GetBiometricCapabilities(goos, bioSig)

\* a client calls a tool by name; the server runs the handler of a
\* registered tool and rejects any other name
CallTool ==
    /\ ret.server
    /\ \E name \in {ToolOf(k) : k \in Categories} \cup {SummaryTool} :
          ret' =
            IF name \notin ret.tools
            THEN [ret EXCEPT !.fn = name, !.out = Fail("unknown tool"),
                             !.invoked = {}]
            ELSE IF name = SummaryTool
            THEN [ret EXCEPT
                    !.fn = name,
                    !.out = GetSecuritySummary(goos, tpmSig, bootSig,
                                               encSig, bioSig),
                    !.invoked = QueriedBy(goos, tpmSig, bootSig, encSig, bioSig)]
            ELSE LET k == CHOOSE c \in Categories : ToolOf(c) = name
                 IN  [ret EXCEPT !.fn = name, !.out = HandleTool(k),
                                 !.invoked = {k}]
    /\ UNCHANGED sigs

NextDispatch ==
    \/ securityChipCmd
    \/ securebootCmd
    \/ encryptionCmd
    \/ biometricsCmd
    \/ summaryCmd
    \/ NewMCPServer
    \/ CallTool

SpecDispatch == InitDispatch /\ [][NextDispatch]_vars

\* the category a feature subcommand is about
CmdCategory ==
    [c \in {"security-chip", "secureboot", "encryption", "biometrics"} |->
        CASE c = "security-chip" -> "tpm"
          [] c = "secureboot"    -> "secure_boot"
          [] c = "encryption"    -> "encryption"
          [] c = "biometrics"    -> "biometrics"]

\* C19: no dispatch path invokes a detector whose gate is false: a CLI
\* subcommand of an unsupported feature ends with an error message and
\* without a detector call, the summary skips the category, and the MCP
\* server registers the tools of the supported features only, so a call of
\* any other feature tool reaches no detector.
C19_NoDispatchPastAFalseGate ==
    /\ \A k \in ret.invoked : Gate(k)
    /\ (ret.fn \in DOMAIN CmdCategory /\ ~Gate(CmdCategory[ret.fn])) =>
           /\ ret.exit = 1
           /\ ret.stderr /= ""
           /\ ret.out = NotRun
           /\ ret.invoked = {}
    /\ ret.server =>
           ret.tools = {ToolOf(k) : k \in {c \in Categories : Gate(c)}}
                       \cup {SummaryTool}

\* on a platform without biometrics the subcommand ended with the message
\* and the server, already started, offers the summary tool only
C19_Witness ==
    /\ ret.fn = "biometrics" /\ ~Gate("biometrics")
    /\ ret.exit = 1
    /\ ret.stderr = "Error: Biometrics are only available on macOS"
    /\ ret.invoked = {}
    /\ ret.server /\ ret.tools = {SummaryTool}

----------------------------------------------------------------------------
(* JSON: encoding/json applied to the record types, by their struct tags *)

\* A Go slice: nil, or a backing array with its elements.
NilSlice == [isNil |-> TRUE, elems |-> <<>>]

Slice(q) == [isNil |-> FALSE, elems |-> q]

\* a slice declared with `var` and filled by append: nil until an append
BuiltSlice(q) == IF q = <<>> THEN NilSlice ELSE Slice(q)

\* The struct tags: for each Go field its JSON key, whether it is tagged
\* omitempty, and the kind of its type.
JsonTags ==
    [Platform |-> [key |-> "platform", omitempty |-> FALSE, kind |-> "string"],
     OverallScore |-> [key |-> "overall_score", omitempty |-> FALSE, kind |-> "int"],
     OverallStatus |-> [key |-> "overall_status", omitempty |-> FALSE, kind |-> "string"],
     TPM |-> [key |-> "tpm", omitempty |-> FALSE, kind |-> "struct"],
     SecureBoot |-> [key |-> "secure_boot", omitempty |-> FALSE, kind |-> "struct"],
     Encryption |-> [key |-> "encryption", omitempty |-> FALSE, kind |-> "struct"],
     Biometrics |-> [key |-> "biometrics", omitempty |-> FALSE, kind |-> "struct"],
     Recommendations |-> [key |-> "recommendations", omitempty |-> TRUE, kind |-> "strings"],
     Present |-> [key |-> "present", omitempty |-> FALSE, kind |-> "bool"],
     Enabled |-> [key |-> "enabled", omitempty |-> FALSE, kind |-> "bool"],
     Type |-> [key |-> "type", omitempty |-> FALSE, kind |-> "string"],
     Mode |-> [key |-> "mode", omitempty |-> FALSE, kind |-> "string"],
     Status |-> [key |-> "status", omitempty |-> FALSE, kind |-> "string"],
     Available |-> [key |-> "available", omitempty |-> FALSE, kind |-> "bool"],
     Configured |-> [key |-> "configured", omitempty |-> FALSE, kind |-> "bool"],
     Version |-> [key |-> "version", omitempty |-> FALSE, kind |-> "string"],
     Manufacturer |-> [key |-> "manufacturer", omitempty |-> FALSE, kind |-> "string"],
     Capabilities |-> [key |-> "capabilities", omitempty |-> FALSE, kind |-> "strings"],
     HardwareKeySupport |-> [key |-> "hardware_key_support", omitempty |-> FALSE, kind |-> "bool"],
     PolicyVersion |-> [key |-> "policy_version", omitempty |-> TRUE, kind |-> "string"],
     SecureBootType |-> [key |-> "secure_boot_type", omitempty |-> FALSE, kind |-> "string"],
     Details |-> [key |-> "details", omitempty |-> TRUE, kind |-> "string"],
     EncryptedVolumes |-> [key |-> "encrypted_volumes", omitempty |-> TRUE, kind |-> "volumes"],
     Name |-> [key |-> "name", omitempty |-> FALSE, kind |-> "string"],
     MountPoint |-> [key |-> "mount_point", omitempty |-> TRUE, kind |-> "string"],
     Encrypted |-> [key |-> "encrypted", omitempty |-> FALSE, kind |-> "bool"],
     TouchIDAvailable |-> [key |-> "touch_id_available", omitempty |-> FALSE, kind |-> "bool"],
     TouchIDEnrolled |-> [key |-> "touch_id_enrolled", omitempty |-> FALSE, kind |-> "bool"],
     FaceIDAvailable |-> [key |-> "face_id_available", omitempty |-> FALSE, kind |-> "bool"],
     FaceIDEnrolled |-> [key |-> "face_id_enrolled", omitempty |-> FALSE, kind |-> "bool"],
     BiometryType |-> [key |-> "biometry_type", omitempty |-> FALSE, kind |-> "string"],
     FprintdAvailable |-> [key |-> "fprintd_available", omitempty |-> TRUE, kind |-> "bool"],
     FprintdEnrolled |-> [key |-> "fprintd_enrolled", omitempty |-> TRUE, kind |-> "bool"],
     HowdyAvailable |-> [key |-> "howdy_available", omitempty |-> TRUE, kind |-> "bool"],
     HowdyConfigured |-> [key |-> "howdy_configured", omitempty |-> TRUE, kind |-> "bool"],
     WindowsHelloAvailable |-> [key |-> "windows_hello_available", omitempty |-> TRUE, kind |-> "bool"],
     WindowsHelloConfigured |-> [key |-> "windows_hello_configured", omitempty |-> TRUE, kind |-> "bool"],
     FingerprintAvailable |-> [key |-> "fingerprint_available", omitempty |-> TRUE, kind |-> "bool"],
     FingerprintEnrolled |-> [key |-> "fingerprint_enrolled", omitempty |-> TRUE, kind |-> "bool"],
     FacialRecognition |-> [key |-> "facial_recognition", omitempty |-> TRUE, kind |-> "bool"],
     PINConfigured |-> [key |-> "pin_configured", omitempty |-> TRUE, kind |-> "bool"]]

\* the fields of the struct a nested field points to, or holds elements of
NestedFields ==
    [TPM |-> {"Present", "Enabled", "Type"},
     SecureBoot |-> {"Enabled", "Mode"},
     Encryption |-> {"Enabled", "Type", "Status"},
     Biometrics |-> {"Available", "Configured", "Type"},
     EncryptedVolumes |-> {"Name", "MountPoint", "Encrypted", "Status"}]

\* what omitempty takes for empty: false, 0, "", a nil pointer, and a slice
\* of length 0 whether nil or not
IsEmptyValue(kind, x) ==
    CASE kind = "bool"   -> x = FALSE
      [] kind = "int"    -> x = 0
      [] kind = "string" -> x = ""
      [] kind = "struct" -> x = Null
      [] OTHER           -> Len(x.elems) = 0

ZeroValue(kind) ==
    CASE kind = "bool"   -> FALSE
      [] kind = "int"    -> 0
      [] kind = "string" -> ""
      [] kind = "struct" -> Null
      [] OTHER           -> NilSlice

JsonNull == [t |-> "null"]

\* the Go field a JSON key belongs to
FieldOfKey(key) == CHOOSE n \in DOMAIN JsonTags : JsonTags[n].key = key

\* the keys json.Marshal emits for the struct value v
KeysOf(v) ==
    {JsonTags[n].key :
        n \in {f \in DOMAIN v :
                  ~(JsonTags[f].omitempty /\ IsEmptyValue(JsonTags[f].kind, v[f]))}}

\* a value of a type without nested structs
MarshalLeaf(kind, x) ==
    IF kind = "strings"
    THEN IF x.isNil THEN JsonNull
         ELSE [t |-> "array",
               v |-> [i \in 1..Len(x.elems) |-> [t |-> "string", v |-> x.elems[i]]]]
    ELSE [t |-> kind, v |-> x]

\* a struct whose fields are leaves
MarshalFlat(v) ==
    [key \in KeysOf(v) |->
        MarshalLeaf(JsonTags[FieldOfKey(key)].kind, v[FieldOfKey(key)])]

MarshalValue(kind, x) ==
    CASE kind = "struct" ->
           IF x = Null THEN JsonNull
           ELSE [t |-> "object", v |-> MarshalFlat(Deref(x))]
      [] kind = "volumes" ->
           IF x.isNil THEN JsonNull
           ELSE [t |-> "array",
                 v |-> [i \in 1..Len(x.elems) |->
                           [t |-> "object", v |-> MarshalFlat(x.elems[i])]]]
      [] OTHER -> MarshalLeaf(kind, x)

\* json.Marshal of a struct value: an object, key by key
Marshal(v) ==
    [key \in KeysOf(v) |->
        MarshalValue(JsonTags[FieldOfKey(key)].kind, v[FieldOfKey(key)])]

UnmarshalLeaf(kind, j) ==
    IF kind = "strings"
    THEN IF j.t = "null" THEN NilSlice
         ELSE Slice([i \in 1..Len(j.v) |-> j.v[i].v])
    ELSE j.v

\* into a zero struct with the given fields: a key that is absent leaves
\* the zero value
UnmarshalFlat(fields, obj) ==
    [f \in fields |->
        IF JsonTags[f].key \in DOMAIN obj
        THEN UnmarshalLeaf(JsonTags[f].kind, obj[JsonTags[f].key])
        ELSE ZeroValue(JsonTags[f].kind)]

UnmarshalValue(f, j) ==
    CASE JsonTags[f].kind = "struct" ->
           IF j.t = "null" THEN Null
           ELSE Ptr(UnmarshalFlat(NestedFields[f], j.v))
      [] JsonTags[f].kind = "volumes" ->
           IF j.t = "null" THEN NilSlice
           ELSE Slice([i \in 1..Len(j.v) |->
                          UnmarshalFlat(NestedFields[f], j.v[i].v)])
      [] OTHER -> UnmarshalLeaf(JsonTags[f].kind, j)

\* json.Unmarshal into a zero struct with the given fields
Unmarshal(fields, obj) ==
    [f \in fields |->
        IF JsonTags[f].key \in DOMAIN obj
        THEN UnmarshalValue(f, obj[JsonTags[f].key])
        ELSE ZeroValue(JsonTags[f].kind)]

RecordTypes ==
    {"SecuritySummary", "TPMResult", "SecureBootResult", "EncryptionResult",
     "BiometricCapabilities"}

\* what the function that builds a record of the type returns on this host
BuiltBy(type) ==
    CASE type = "SecuritySummary" ->
           GetSecuritySummary(goos, tpmSig, bootSig, encSig, bioSig)
      [] type = "TPMResult" -> GetTPMStatus(goos, tpmSig)
      [] type = "SecureBootResult" -> GetSecureBootStatus(goos, bootSig)
      [] type = "EncryptionResult" -> GetEncryptionStatus(goos, encSig)
      [] type = "BiometricCapabilities" -> GetBiometricCapabilities(goos, bioSig)

\* the Go value of a returned record: its lists as the code builds them
\* (appended to a nil slice, or a slice literal), or, with `emptied`, an
\* empty non-nil list where the code leaves nil
GoValue(type, r, emptied) ==
    LET built(q) == IF emptied /\ q = <<>> THEN Slice(<<>>) ELSE BuiltSlice(q)
    IN  CASE type = "SecuritySummary" ->
               [r EXCEPT !.Recommendations = built(@)]
          [] type = "TPMResult" -> [r EXCEPT !.Capabilities = Slice(@)]
          [] type = "EncryptionResult" ->
               [r EXCEPT !.EncryptedVolumes = built(@)]
          [] OTHER -> r

InitJSON ==
    /\ goos \in Platforms
    /\ \E h \in Hosts(goos) :
          /\ tpmSig = h[1]
          /\ bootSig = h[2]
          /\ encSig = h[3]
          /\ bioSig = h[4]
    /\ ret = [fn |-> "none"]

CallMarshal ==
    /\ ret.fn = "none"
    /\ \E type \in RecordTypes, emptied \in BOOLEAN :
          /\ BuiltBy(type).err = Null
          /\ LET v == GoValue(type, Deref(BuiltBy(type).val), emptied)
             IN  ret' = [fn |-> "Marshal", type |-> type, value |-> v,
                         data |-> Marshal(v)]
    /\ UNCHANGED sigs

CallUnmarshal ==
    /\ ret.fn = "Marshal"
    /\ ret' = [fn |-> "Unmarshal", type |-> ret.type, value |-> ret.value,
               data |-> ret.data,
               back |-> Unmarshal(DOMAIN ret.value, ret.data)]
    /\ UNCHANGED sigs

NextJSON ==
    \/ CallMarshal
    \/ CallUnmarshal

SpecJSON == InitJSON /\ [][NextJSON]_vars

\* C20: marshalling a SecuritySummary, TPMResult, SecureBootResult,
\* EncryptionResult or BiometricCapabilities value and unmarshalling the
\* result gives back an equal value, also when recommendations or
\* encrypted_volumes is an empty non-nil list and when a nested summary is
\* null.
C20_JSONRoundTrip ==
    ret.fn = "Unmarshal" => ret.back = ret.value

----------------------------------------------------------------------------
(* FormatOutput: the two renderings of a record *)

FormatTable == <<"t", "a", "b", "l", "e">>

\* strings.ToLower on a string of ASCII characters
ToLower(s) ==
    LET upper == <<"A", "B", "C", "D", "E", "F", "G", "H", "I", "J", "K", "L",
                   "M", "N", "O", "P", "Q", "R", "S", "T", "U", "V", "W", "X",
                   "Y", "Z">>
        lower == <<"a", "b", "c", "d", "e", "f", "g", "h", "i", "j", "k", "l",
                   "m", "n", "o", "p", "q", "r", "s", "t", "u", "v", "w", "x",
                   "y", "z">>
        low(c) == IF \E i \in 1..26 : upper[i] = c
                  THEN lower[CHOOSE i \in 1..26 : upper[i] = c]
                  ELSE c
    IN  [i \in 1..Len(s) |-> low(s[i])]

\* the values of the --format flag and of the tools' format argument
Formats ==
    {FormatTable,
     <<"T", "A", "B", "L", "E">>,
     <<"T", "a", "b", "l", "e">>,
     <<"t", "a", "B", "L", "e">>,
     <<"j", "s", "o", "n">>,
     <<>>,
     <<"y", "a", "m", "l">>,
     <<"t", "a", "b", "l", "e", "s">>}

\* what tableFunc returns for the record it closes over
TableOf(data) == [t |-> "table", of |-> data]

\* compares the format as written, without strings.ToLower
FormatOutput_caseSensitive(data, format) ==
    IF format = FormatTable
    THEN [out |-> TableOf(data), tableCalls |-> 1]
    ELSE [out |-> [t |-> "json", v |-> Marshal(data)], tableCalls |-> 0]

\* the rendering returned, and how often tableFunc was called
FormatOutput(data, format) ==
    IF ToLower(format) = FormatTable
    THEN [out |-> TableOf(data), tableCalls |-> 1]
    ELSE [out |-> [t |-> "json", v |-> Marshal(data)], tableCalls |-> 0]

InitFormat ==
    /\ goos \in Platforms
    /\ \E h \in HostsFew(goos) :
          /\ tpmSig = h[1]
          /\ bootSig = h[2]
          /\ encSig = h[3]
          /\ bioSig = h[4]
    /\ ret = [fn |-> "none"]

\* a Format<Record> function called on the record its detector returned
CallFormatOutput ==
    /\ ret.fn = "none"
    /\ \E type \in RecordTypes, format \in Formats :
          /\ BuiltBy(type).err = Null
          /\ LET v == GoValue(type, Deref(BuiltBy(type).val), FALSE)
                 r == FormatOutput(v, format)
             IN  ret' = [fn |-> "FormatOutput", type |-> type, data |-> v,
                         format |-> format, out |-> r.out,
                         tableCalls |-> r.tableCalls]
    /\ UNCHANGED sigs

NextFormat == CallFormatOutput

SpecFormat == InitFormat /\ [][NextFormat]_vars

\* the format string equals "table" when letter case is ignored
IsTableIgnoringCase(format) ==
    /\ Len(format) = 5
    /\ format[1] \in {"t", "T"}
    /\ format[2] \in {"a", "A"}
    /\ format[3] \in {"b", "B"}
    /\ format[4] \in {"l", "L"}
    /\ format[5] \in {"e", "E"}

\* C21: FormatOutput returns the table rendering exactly when the format
\* equals "table" ignoring letter case; for every other format ("json", the
\* empty string, an unknown value) it returns the JSON serialization of the
\* record and does not call the table function.
C21_TableOnlyOnRequest ==
    ret.fn = "FormatOutput" =>
        IF IsTableIgnoringCase(ret.format)
        THEN ret.out = TableOf(ret.data) /\ ret.tableCalls = 1
        ELSE /\ ret.out = [t |-> "json", v |-> Marshal(ret.data)]
             /\ ret.tableCalls = 0

\* C21 witness: an upper-case "TABLE" gave the table, and elsewhere the
\* empty format gave JSON without a call of the table function
C21_Witness ==
    /\ ret.fn = "FormatOutput"
    /\ ret.format = <<"T", "A", "B", "L", "E">>
    /\ ret.out.t = "table"
    /\ ret.tableCalls = 1
    /\ FormatOutput(ret.data, <<>>).out.t = "json"
    /\ FormatOutput(ret.data, <<>>).tableCalls = 0

\* the signals with the two EFI variables answering as given
WithEfiVars(s, sbErr, sbData, setupErr, setupData) ==
    [s EXCEPT !.sbErr = sbErr, !.sbData = sbData, !.efivarsOk = ~sbErr,
              !.setupErr = setupErr, !.setupData = setupData]

\* C22: on Linux, when /sys/firmware/efi does not exist, GetSecureBootStatus
\* returns a nil error and a record with enabled=false, mode=legacy_bios and
\* secure_boot_type=none, and it returns before reading the SecureBoot or
\* SetupMode variable: whatever those reads would have answered, the result
\* is the same.
C22_LegacyBIOSReturnsFirst ==
    (Returned("GetSecureBootStatus") /\ goos = "linux"
     /\ bootSig.efiStat = "notexist") =>
        /\ ret.out.err = Null
        /\ ~Result.Enabled
        /\ Result.Mode = "legacy_bios"
        /\ Result.SecureBootType = "none"
        /\ \A sb \in EfiVarContents, setup \in {<<>>, <<7, 0, 0, 0, 1>>} :
              /\ GetSecureBootStatus_linux(
                     WithEfiVars(bootSig, FALSE, sb, setup = <<>>, setup))
                 = ret.out
              /\ GetSecureBootStatus_linux(
                     WithEfiVars(bootSig, TRUE, <<>>, setup = <<>>, setup))
                 = ret.out

\* C22 witness: a Linux host without /sys/firmware/efi was queried
C22_Witness ==
    /\ Returned("GetSecureBootStatus")
    /\ goos = "linux"
    /\ bootSig.efiStat = "notexist"
    /\ Result.Mode = "legacy_bios"
    /\ Result.Details = "System booted in Legacy BIOS mode"

\* the modes the record's vocabulary enumerates
EnumeratedModes ==
    {"full", "reduced", "medium", "permissive", "disabled", "enabled",
     "legacy_bios", "unknown"}

\* the modes in the sources that start with "assumed_"
AssumedModes == {"assumed_full"}

\* C23: every SecureBootResult returned by GetSecureBootStatus on Linux and
\* macOS has a non-empty secure_boot_type and a mode that is one of full,
\* reduced, medium, permissive, disabled, enabled, legacy_bios, unknown, or
\* starts with assumed_.
C23_ModeInVocabulary ==
    (Returned("GetSecureBootStatus") /\ goos \in {"linux", "darwin"}) =>
        /\ ret.out.err = Null
        /\ Result.SecureBootType /= ""
        /\ Result.Mode \in EnumeratedModes \cup AssumedModes

\* the enumerated status values of a volume and of an EncryptionResult
EnumeratedStatuses ==
    {"enabled", "disabled", "encrypting", "decrypting", "unknown"}

\* C24: each volume listed by GetEncryptionStatus (macOS, Windows, Linux)
\* has a status that is one of enabled, disabled, encrypting, decrypting,
\* unknown.
C24_VolumeStatusEnumerated ==
    (Returned("GetEncryptionStatus")
     /\ goos \in {"linux", "windows", "darwin"}) =>
        /\ ret.out.err = Null
        /\ \A i \in 1..Len(Result.EncryptedVolumes) :
              Result.EncryptedVolumes[i].Status \in EnumeratedStatuses

\* the names of the listed volumes, in order
VolumeNames == [i \in 1..Len(Result.EncryptedVolumes) |->
                   Result.EncryptedVolumes[i].Name]

\* the names /etc/crypttab configures: first field of a line that is not
\* empty, not a comment and has at least two fields
CrypttabNames(s) ==
    IF s.crypttabErr THEN {}
    ELSE {s.crypttab[i][1] :
            i \in {j \in 1..Len(s.crypttab) :
                      /\ Len(s.crypttab[j]) >= 2
                      /\ s.crypttab[j][1] /= <<>>
                      /\ s.crypttab[j][1][1] /= "#"}}

\* the names of the active crypt targets in /dev/mapper
MapperNames(s) ==
    IF s.mapperErr THEN {}
    ELSE {s.mapper[i].name :
            i \in {j \in 1..Len(s.mapper) :
                      s.mapper[j].crypt /\ s.mapper[j].name /= ControlName}}

\* C25: on Linux no two entries of encrypted_volumes have the same name, for
\* any contents of /dev/mapper, /etc/crypttab and the block devices; every
\* active crypt target and every crypttab name is listed, and a crypttab name
\* that is already listed (from /dev/mapper or an earlier line) is not added
\* again.
C25_VolumesDistinctByName ==
    (Returned("GetEncryptionStatus") /\ goos = "linux") =>
        /\ ret.out.err = Null
        /\ \A i, j \in 1..Len(VolumeNames) :
              VolumeNames[i] = VolumeNames[j] => i = j
        /\ \A n \in MapperNames(encSig) \cup CrypttabNames(encSig) :
              \E i \in 1..Len(VolumeNames) : VolumeNames[i] = n
        /\ \A i \in 1..Len(VolumeNames) :
              Result.EncryptedVolumes[i].Status
                  \in {"configured_active", "configured_inactive"}
              => VolumeNames[i] \in CrypttabNames(encSig) \ MapperNames(encSig)

\* C25 witness: the same name is an active crypt target and a crypttab
\* entry, and is listed once; elsewhere a name on two crypttab lines
C25_Witness ==
    /\ Returned("GetEncryptionStatus")
    /\ goos = "linux"
    /\ RootName \in MapperNames(encSig) \cap CrypttabNames(encSig)
    /\ Len(Result.EncryptedVolumes) >= 2
    /\ \E s \in EncSigs_linux :
          /\ Len(s.crypttab) = 2
          /\ s.crypttab[1] = s.crypttab[2]
          /\ CrypttabNames(s) /= {}
          /\ s.mapper = <<>>
          /\ Len(Deref(GetEncryptionStatus_linux(s).val).EncryptedVolumes) = 1

\* the LUKS block devices the header probe looks at, by base name
LuksDevices(s) ==
    {Base(s.blockDevs[i].dev) :
        i \in {j \in 1..Len(s.blockDevs) :
                  /\ s.blockDevs[j].isLuks
                  /\ ~HasSuffix(s.blockDevs[j].dev, <<"0">>)}}

\* the volume list GetEncryptionStatus returns for the Linux signals s
VolumesOf(s) == Deref(GetEncryptionStatus_linux(s).val).EncryptedVolumes

\* the device is left out although it is a LUKS device, and the only listed
\* name that holds its base name belongs to the mapping of another device
OverMerged(s) ==
    \E d \in LuksDevices(s) :
        /\ \A i \in 1..Len(VolumesOf(s)) : VolumesOf(s)[i].Name /= d \o LuksSuffix
        /\ \E i \in 1..Len(s.crypttab) :
              /\ Len(s.crypttab[i]) >= 2
              /\ Contains(s.crypttab[i][1], d)
              /\ Base(s.crypttab[i][2]) /= d
              /\ \E k \in 1..Len(VolumesOf(s)) :
                    VolumesOf(s)[k].Name = s.crypttab[i][1]

\* the device crypttab maps under a name is listed under that name and once
\* more as "<device> (LUKS)"
UnderMerged(s) ==
    \E i \in 1..Len(s.crypttab) :
        /\ Len(s.crypttab[i]) >= 2
        /\ Base(s.crypttab[i][2]) \in LuksDevices(s)
        /\ \E k \in 1..Len(VolumesOf(s)) :
              VolumesOf(s)[k].Name = s.crypttab[i][1]
        /\ \E k \in 1..Len(VolumesOf(s)) :
              VolumesOf(s)[k].Name = Base(s.crypttab[i][2]) \o LuksSuffix

\* C26: the Linux LUKS header probe de-duplicates by substring match: a LUKS
\* block device is listed as "<device> (LUKS)" exactly when no volume listed
\* before it has a name that contains the device's base name, whatever that
\* volume is.  So a device can be omitted because of the name of a different
\* volume, and a device can be listed twice, under its mapper name and as
\* "<device> (LUKS)".
C26_LuksProbeMergesBySubstring ==
    (Returned("GetEncryptionStatus") /\ goos = "linux") =>
        \A d \in LuksDevices(encSig) :
            LET at == {i \in 1..Len(VolumeNames) :
                          VolumeNames[i] = d \o LuksSuffix
                          /\ Result.EncryptedVolumes[i].Status = "luks_device"}
            IN  IF at = {}
                THEN \E j \in 1..Len(VolumeNames) : Contains(VolumeNames[j], d)
                ELSE \A i \in at : \A j \in 1..(i - 1) :
                        ~Contains(VolumeNames[j], d)

\* C26 witness: a host where /dev/sdb is left out because the listed mapping
\* of /dev/sdb1 is named sdb1_c, and Linux signals where /dev/sda2 is listed
\* as root and as "sda2 (LUKS)"
C26_Witness ==
    /\ Returned("GetEncryptionStatus")
    /\ goos = "linux"
    /\ OverMerged(encSig)
    /\ \E s \in EncSigs_linux : UnderMerged(s) /\ ~OverMerged(s)

\* C27: on macOS GetTPMStatus reports present=true exactly when the CPU is
\* Apple silicon, or the creation of a Secure-Enclave-backed key succeeds, or
\* it fails with an error other than errSecUnimplemented (-4); present=false
\* when the access control cannot be created, when the error is
\* errSecUnimplemented, or when there is neither a key nor an error; enabled
\* and hardware_key_support always equal present.
C27_SecureEnclavePresence ==
    (Returned("GetTPMStatus") /\ goos = "darwin") =>
        LET attempted == ~tpmSig.arm64 /\ ~tpmSig.accessNull
            failed    == attempted /\ ~tpmSig.key /\ tpmSig.errCode /= 0
        IN  /\ ret.out.err = Null
            /\ Result.Present <=>
                  \/ tpmSig.arm64
                  \/ attempted /\ tpmSig.key
                  \/ failed /\ tpmSig.errCode /= ErrSecUnimplemented
            /\ ~tpmSig.arm64 /\ tpmSig.accessNull => ~Result.Present
            /\ failed /\ tpmSig.errCode = ErrSecUnimplemented => ~Result.Present
            /\ attempted /\ ~tpmSig.key /\ tpmSig.errCode = 0 => ~Result.Present
            /\ Result.Enabled = Result.Present
            /\ Result.HardwareKeySupport = Result.Present

\* C27 witness: an Intel Mac where the key creation failed with an error
\* other than errSecUnimplemented is reported as present
C27_Witness ==
    /\ Returned("GetTPMStatus")
    /\ goos = "darwin"
    /\ ~tpmSig.arm64
    /\ ~tpmSig.key
    /\ tpmSig.errCode \notin {0, ErrSecUnimplemented}
    /\ Result.Present
    /\ Result.Enabled
    /\ Result.HardwareKeySupport

----------------------------------------------------------------------------
(* ListProcesses: the process list, by CPU usage *)

MaxProcs == 3

\* CPU percentages a process can show (the order of the values is all that
\* the function looks at)
CPUValues == {0, 5, 50}

\* what process.Processes hands over: for each process its CPUPercent and
\* the list Status() answers with; the PID is the position in the table
ProcessTables ==
    UNION {[1..n -> [cpu : CPUValues, status : {<<>>, <<"S">>}]] :
              n \in 0..MaxProcs}

\* the loop over procs: one ProcessInfo per process
ProcInfos(procs) ==
    [i \in 1..Len(procs) |->
        [PID |-> i, CPUPercent |-> procs[i].cpu,
         Status |-> IF Len(procs[i].status) > 0 THEN procs[i].status[1]
                    ELSE "unknown"]]

\* sort.Slice with less(i, j) = CPUPercent[i] > CPUPercent[j]: the sort is
\* not stable, so every arrangement in which no element precedes one with a
\* greater CPUPercent is a possible outcome
SortSlice(q) ==
    {[i \in 1..Len(q) |-> q[f[i]]] :
        f \in {g \in [1..Len(q) -> 1..Len(q)] :
                  /\ \A i, j \in 1..Len(q) : g[i] = g[j] => i = j
                  /\ \A i \in 1..(Len(q) - 1) :
                        q[g[i]].CPUPercent >= q[g[i + 1]].CPUPercent}}

\* Faulty variant of ListProcesses: the list is cut to the limit before it
\* is sorted.
ListProcesses_limitBeforeSort(procs, failed, limit) ==
    IF failed THEN {Fail("failed to list processes")}
    ELSE LET all == ProcInfos(procs)
             cut == IF limit > 0 /\ limit < Len(all)
                    THEN SubSeq(all, 1, limit) ELSE all
         IN  {Ok([Processes |-> procInfos, Total |-> Len(all)]) :
                 procInfos \in SortSlice(cut)}

\* the results ListProcesses(ctx, limit) can return
ListProcesses(procs, failed, limit) ==
    IF failed THEN {Fail("failed to list processes")}
    ELSE {LET total == Len(procInfos)
          IN  Ok([Processes |-> IF limit > 0 /\ limit < Len(procInfos)
                                THEN SubSeq(procInfos, 1, limit)
                                ELSE procInfos,
                  Total |-> total]) :
             procInfos \in SortSlice(ProcInfos(procs))}

\* the process list does not read the security signals: they stay those of
\* a platform without detectors
InitProcesses ==
    /\ goos = "freebsd"
    /\ tpmSig = NoSig
    /\ bootSig = NoSig
    /\ encSig = NoSig
    /\ bioSig = NoSig
    /\ ret = [fn |-> "none"]

CallListProcesses ==
    /\ ret.fn = "none"
    /\ \E procs \in ProcessTables, failed \in BOOLEAN,
          limit \in (0 - 1)..(MaxProcs + 1) :
          /\ failed => procs = <<>>
          /\ \E out \in ListProcesses(procs, failed, limit) :
                ret' = [fn |-> "ListProcesses", procs |-> procs,
                        failed |-> failed, limit |-> limit, out |-> out]
    /\ UNCHANGED sigs

NextProcesses == CallListProcesses

SpecProcesses == InitProcesses /\ [][NextProcesses]_vars

\* C28: ListProcesses(ctx, limit) returns the processes in non-increasing
\* CPUPercent order; Total is the number of all enumerated processes whatever
\* the limit; when 0 < limit < Total exactly the limit highest-CPU entries
\* are returned, and when limit <= 0 or limit >= Total all entries are
\* returned, so len(Processes) <= Total always.
C28_TopByCPU ==
    (ret.fn = "ListProcesses" /\ ~ret.failed) =>
        LET ps       == Result.Processes
            all      == ProcInfos(ret.procs)
            returned == {ps[i] : i \in 1..Len(ps)}
            enumerated == {all[i] : i \in 1..Len(all)}
        IN  /\ ret.out.err = Null
            /\ \A i \in 1..(Len(ps) - 1) :
                  ps[i].CPUPercent >= ps[i + 1].CPUPercent
            /\ Result.Total = Len(ret.procs)
            /\ Len(ps) <= Result.Total
            /\ Cardinality(returned) = Len(ps)
            /\ returned \subseteq enumerated
            /\ IF 0 < ret.limit /\ ret.limit < Result.Total
               THEN /\ Len(ps) = ret.limit
                    /\ \A p \in returned, q \in enumerated \ returned :
                          p.CPUPercent >= q.CPUPercent
               ELSE returned = enumerated

\* C28 witness: three processes listed with limit 2; the one left out was
\* first in the process table and has the lowest CPU usage
C28_Witness ==
    /\ ret.fn = "ListProcesses"
    /\ ~ret.failed
    /\ Len(ret.procs) = 3
    /\ ret.limit = 2
    /\ ret.procs[1].cpu < ret.procs[2].cpu
    /\ ret.procs[2].cpu < ret.procs[3].cpu
    /\ Len(Result.Processes) = 2
    /\ Result.Processes[1].PID = 3
    /\ Result.Processes[2].PID = 2
    /\ Result.Total = 3

\* the score GetSecuritySummary returns on the host h of platform os
ScoreOn(os, h) ==
    Deref(GetSecuritySummary(os, h[1], h[2], h[3], h[4]).val).OverallScore

\* C29: on each of macOS, Linux and Windows the score 100 is reachable:
\* there is a combination of underlying signals for which all four
\* categories contribute 25 points.
C29_FullScoreReachable ==
    goos \in {"darwin", "linux", "windows"} =>
        \E h \in Hosts(goos) : ScoreOn(goos, h) = 100

\* C30: in every EncryptionResult returned by GetEncryptionStatus (macOS,
\* Windows, Linux) the top-level status is one of enabled, disabled,
\* encrypting, decrypting, unknown and agrees with the enabled flag: enabled,
\* encrypting and decrypting go with enabled=true, disabled and unknown with
\* enabled=false.
C30_StatusAgreesWithEnabled ==
    (Returned("GetEncryptionStatus")
     /\ goos \in {"linux", "windows", "darwin"}) =>
        /\ ret.out.err = Null
        /\ Result.Status \in EnumeratedStatuses
        /\ Result.Status \in {"enabled", "encrypting", "decrypting"}
              => Result.Enabled
        /\ Result.Status \in {"disabled", "unknown"} => ~Result.Enabled

\* C30 witness: macOS with FileVault decryption in progress, reported as
\* decrypting and enabled
C30_Witness ==
    /\ Returned("GetEncryptionStatus")
    /\ goos = "darwin"
    /\ Result.Status = "decrypting"
    /\ Result.Enabled

====
